---- MODULE Spec2Model ----
(***************************************************************************)
(* Smart Tile web application (src/app.py): the request handlers of the    *)
(* Flask application over one SQLite database file.                        *)
(*                                                                         *)
(* Every request handler opens its own connection (get_db), so handlers    *)
(* of concurrent requests interleave statement by statement.  A SELECT     *)
(* reads the committed database; the first INSERT/UPDATE/DELETE of a       *)
(* handler opens the (single) write transaction of the database file, and  *)
(* conn.commit() publishes it.  A handler that dies with its transaction   *)
(* open is rolled back when its connection is closed.                      *)
(*                                                                         *)
(* Units: the clock `now` counts hours; force is in newtons, displacement  *)
(* in micrometres, so that energy = force * displacement is in             *)
(* microjoules (the code's joules times 1000000).                          *)
(***************************************************************************)
EXTENDS Integers, Sequences, FiniteSets, TLC

VARIABLES db, txn, now, rng, session, req

vars == <<db, txn, now, rng, session, req>>

(***************************************************************************)
(* Bounds of the model.                                                    *)
(***************************************************************************)
MaxEvents == 3
MaxTokens == 1
MaxIssued == 2
MaxTime == 2
MaxUsers == 2

Clients == {"c1", "c2"}

Nil == [kind |-> "nil"]

(***************************************************************************)
(* Strings are sequences of characters.                                    *)
(***************************************************************************)
Lower(s) ==
    [i \in 1..Len(s) |->
        CASE s[i] = "A" -> "a"
          [] s[i] = "B" -> "b"
          [] s[i] = "X" -> "x"
          [] OTHER -> s[i]]

RECURSIVE LStrip(_)
LStrip(s) == IF s # <<>> /\ Head(s) = " " THEN LStrip(Tail(s)) ELSE s

RECURSIVE RStrip(_)
RStrip(s) ==
    IF s # <<>> /\ s[Len(s)] = " " THEN RStrip(SubSeq(s, 1, Len(s) - 1)) ELSE s

Strip(s) == RStrip(LStrip(s))

Contains(s, ch) == \E i \in 1..Len(s) : s[i] = ch

(***************************************************************************)
(* werkzeug's generate_password_hash / check_password_hash.                *)
(***************************************************************************)
generate_password_hash(password) == [alg |-> "pbkdf2", of |-> password]

\* Mutant: a check that every password passes.
check_password_hash_any(pwhash, password) == TRUE

check_password_hash(pwhash, password) == pwhash.of = password

(***************************************************************************)
(* The database: three tables and the AUTOINCREMENT counters.              *)
(***************************************************************************)
EmptyDb ==
    [users |-> {}, tokens |-> {}, energy |-> {},
     seq |-> [users |-> 0, tokens |-> 0, energy |-> 0]]

\* SQL NULL, Python's None: no stored energy and no time is negative.
NULL == -1

NoTxn == [owner |-> "none"]

NoSession == [user_id |-> 0, username |-> <<>>, email |-> <<>>]

Idle == [op |-> "none", pc |-> "idle", args |-> Nil, loc |-> Nil, resp |-> Nil]

\* Mutant: a session check that always passes.
LoggedIn_unchecked(c) == TRUE

\* 'user_id' in session
LoggedIn(c) == session[c].user_id # 0

Ready(c) == req[c].pc \in {"idle", "done"}

At(c, op, pc) == req[c].op = op /\ req[c].pc = pc

\* A request of client c begins in this step (and may end in it).
Starts(c, op) == Ready(c) /\ req'[c] # req[c] /\ req'[c].op = op

Begin(c, op, pc, args, loc) ==
    req' = [req EXCEPT ![c] = [op |-> op, pc |-> pc, args |-> args,
                               loc |-> loc, resp |-> Nil]]

Goto(c, pc, loc) == req' = [req EXCEPT ![c].pc = pc, ![c].loc = loc]

Finish(c, resp) ==
    req' = [req EXCEPT ![c].pc = "done", ![c].loc = Nil, ![c].resp = resp]

Respond(c, op, args, resp) ==
    req' = [req EXCEPT ![c] = [op |-> op, pc |-> "done", args |-> args,
                               loc |-> Nil, resp |-> resp]]

\* The statements of a handler read its own open transaction, else the
\* committed database.
View(c) == IF txn.owner = c THEN txn.db ELSE db

\* The write lock: a handler may write when no other connection holds the
\* write transaction.
CanWrite(c) == txn.owner \in {"none", c}

Write(c, newdb) == txn' = [owner |-> c, db |-> newdb]

\* conn.commit()
Commit(c) ==
    /\ txn.owner = c
    /\ db' = txn.db
    /\ txn' = NoTxn

(***************************************************************************)
(* Responses: redirect(url_for(..)) and render_template(..) with the       *)
(* flashed message, jsonify(..) with its status.                           *)
(***************************************************************************)
Redirect(to, category, message) ==
    [kind |-> "redirect", to |-> to, category |-> category, flash |-> message]

Page(template, category, message) ==
    [kind |-> "page", to |-> template, category |-> category, flash |-> message]

JsonError(status, error) ==
    [kind |-> "json", to |-> status, category |-> "error", flash |-> error]

\* What the caller sees of a response.
Visible(resp) ==
    [kind |-> resp.kind, to |-> resp.to, category |-> resp.category, flash |-> resp.flash]

MIN_PASSWORD_LEN == 6

MSG_PASSWORD_SHORT == "Password must be at least 6 characters long"
MSG_PASSWORD_MISMATCH == "Passwords do not match"

(***************************************************************************)
(* simulate_step                                                           *)
(***************************************************************************)
\* random.uniform(400, 800) newtons and random.uniform(0.002, 0.005) metres:
\* force in newtons, displacement in micrometres, so that energies are whole
\* microjoules.
Samples == {[force |-> 600, displacement |-> 3000], [force |-> 401, displacement |-> 2004]}

\* Mutant: an energy that is not the product.
Energy_additive(force, displacement) == force + displacement

\* energy_generated = force * displacement
Energy(force, displacement) == force * displacement

\* round(a / b): the nearest integer, a tie going to the even one.
RoundDiv(a, b) ==
    LET q == a \div b
        r == a % b
    IN IF 2 * r < b THEN q
       ELSE IF 2 * r > b THEN q + 1
       ELSE IF q % 2 = 0 THEN q ELSE q + 1

\* round(joules * 1000, 2): microjoules to hundredths of a millijoule.
MilliJoules(energy) == RoundDiv(energy, 10)

\* round(joules / 3.6, 4), in ten-thousandths.
WattHours(energy) == RoundDiv(energy, 360)

\* round(joules / 3600 * 8, 2), in hundredths.
ValueINR(energy) == RoundDiv(energy * 8, 36000000)

EventsOf(d, uid) == {e \in d.energy : e.user_id = uid}

RECURSIVE SetMax(_)
SetMax(S) ==
    IF S = {} THEN 0
    ELSE LET x == CHOOSE y \in S : TRUE
             m == SetMax(S \ {x})
         IN IF x > m THEN x ELSE m

RECURSIVE SetSum(_)
SetSum(S) ==
    IF S = {} THEN 0
    ELSE LET x == CHOOSE y \in S : TRUE IN x.energy_generated + SetSum(S \ {x})

SetMin(S) == IF S = {} THEN 0 ELSE CHOOSE x \in S : \A y \in S : x <= y

\* An aggregate (SUM, MAX, MIN) of a SELECT: NULL over no rows.
Aggregate(rows, value) == IF rows = {} THEN NULL ELSE value

\* Mutant: None taken as the number it stands for here.
OrZero_absent(v) == v

\* (v or 0)
OrZero(v) == IF v = NULL \/ v = 0 THEN 0 ELSE v

\* Mutant: the highest sequence number ever given out, cleared or not.
MaxFootsteps_ever(d, uid) == d.seq.energy

\* Mutant: the MAX without its WHERE clause, over every user's rows.
MaxFootsteps_of_all(d, uid) == SetMax({e.footsteps : e \in d.energy})

\* SELECT COALESCE(MAX(footsteps), 0) FROM energy_data WHERE user_id = ?
MaxFootsteps(d, uid) == SetMax({e.footsteps : e \in EventsOf(d, uid)})

\* INSERT INTO energy_data (user_id, footsteps, force, displacement,
\* energy_generated); id is AUTOINCREMENT, timestamp CURRENT_TIMESTAMP.
InsertEnergy(d, uid, footsteps, force, displacement, energy) ==
    [d EXCEPT !.energy = @ \cup {[id |-> d.seq.energy + 1, user_id |-> uid,
                                   timestamp |-> now, footsteps |-> footsteps,
                                   force |-> force, displacement |-> displacement,
                                   energy_generated |-> energy]},
              !.seq.energy = @ + 1]

\* Mutant: a total added up from the rounded millijoule figure of each
\* event.
Stats_from_rounded(d, uid) ==
    LET rows == EventsOf(d, uid)
        rounded == {[id |-> e.id, energy_generated |-> 10 * MilliJoules(e.energy_generated)]
                      : e \in rows}
    IN [total_steps |-> Cardinality(rows),
        total_energy |-> Aggregate(rows, SetSum(rounded)),
        max_energy |-> Aggregate(rows, SetMax({e.energy_generated : e \in rows})),
        min_energy |-> Aggregate(rows, SetMin({e.energy_generated : e \in rows}))]

\* SELECT COUNT(*), SUM(energy_generated), MAX(..), MIN(..) of the user's
\* rows; AVG(energy_generated) is total_energy / total_steps, and SUM, AVG,
\* MAX and MIN are NULL over no rows.
Stats(d, uid) ==
    LET rows == EventsOf(d, uid)
    IN [total_steps |-> Cardinality(rows),
        total_energy |-> Aggregate(rows, SetSum(rows)),
        max_energy |-> Aggregate(rows, SetMax({e.energy_generated : e \in rows})),
        min_energy |-> Aggregate(rows, SetMin({e.energy_generated : e \in rows}))]

\* round((avg_energy or 0) * 1000, 2) of the row above.
AvgMilliJoules(stats) ==
    IF stats.total_energy = NULL THEN OrZero(NULL)
    ELSE RoundDiv(stats.total_energy, 10 * stats.total_steps)

simulate_step_select(c, Draws) ==
    /\ Ready(c)
    /\ IF ~LoggedIn(c)
       THEN Respond(c, "simulate_step", Nil, JsonError(401, "Not authenticated"))
       ELSE \E s \in Draws :
              /\ db.seq.energy < MaxEvents
              /\ Begin(c, "simulate_step", "insert", s,
                       [user_id |-> session[c].user_id,
                        energy_generated |-> Energy(s.force, s.displacement),
                        new_step_count |-> MaxFootsteps(View(c), session[c].user_id) + 1])
    /\ UNCHANGED <<db, txn, now, rng, session>>

simulate_step_insert(c) ==
    /\ At(c, "simulate_step", "insert")
    /\ CanWrite(c)
    /\ Write(c, InsertEnergy(View(c), req[c].loc.user_id, req[c].loc.new_step_count,
                             req[c].args.force, req[c].args.displacement,
                             req[c].loc.energy_generated))
    /\ Goto(c, "commit", req[c].loc)
    /\ UNCHANGED <<db, now, rng, session>>

simulate_step_commit(c) ==
    /\ At(c, "simulate_step", "commit")
    /\ Commit(c)
    /\ Goto(c, "stats", req[c].loc)
    /\ UNCHANGED <<now, rng, session>>

\* The statistics are read after the commit; over no rows (the user's
\* events were cleared meanwhile) SUM is NULL and None * 1000 raises.
simulate_step_stats(c) ==
    /\ At(c, "simulate_step", "stats")
    /\ LET stats == Stats(View(c), req[c].loc.user_id)
       IN IF stats.total_energy = NULL
          THEN Finish(c, JsonError(500, "Simulation failed"))
          ELSE Finish(c, [kind |-> "json", to |-> 200, category |-> "success",
                          flash |-> "",
                          step_number |-> req[c].loc.new_step_count,
                          force |-> req[c].args.force,
                          displacement |-> req[c].args.displacement,
                          energy |-> MilliJoules(req[c].loc.energy_generated),
                          total_steps |-> stats.total_steps,
                          total_energy |-> MilliJoules(stats.total_energy),
                          avg_energy |-> AvgMilliJoules(stats)])
    /\ UNCHANGED <<db, txn, now, rng, session>>

(***************************************************************************)
(* get_energy_data                                                         *)
(***************************************************************************)
\* The rows in an order that ORDER BY timestamp ASC allows: rows of one
\* timestamp come in any order.
OrderByTimestamp(rows) ==
    LET n == Cardinality(rows)
    IN {s \in [1..n -> rows] :
          /\ \A i, j \in 1..n : i # j => s[i] # s[j]
          /\ \A i, j \in 1..n : i < j => s[i].timestamp <= s[j].timestamp}

\* LIMIT ?: a negative limit is no limit.
Limit(s, limit) ==
    IF limit < 0 \/ limit >= Len(s) THEN s ELSE SubSeq(s, 1, limit)

Reverse(s) == [i \in 1..Len(s) |-> s[Len(s) + 1 - i]]

RECENT_RECORDS == 10

\* reversed(all_records[-10:])
RecentRecords(all_records) ==
    LET n == Len(all_records)
    IN Reverse(IF n <= RECENT_RECORDS THEN all_records
               ELSE SubSeq(all_records, n - RECENT_RECORDS + 1, n))

\* What a record of the response shows of a row.
Record(row) ==
    [id |-> row.id, step |-> row.footsteps, time |-> row.timestamp,
     force |-> row.force, displacement |-> row.displacement,
     energy |-> MilliJoules(row.energy_generated)]

get_energy_data_select_records(c, Limits) ==
    /\ Ready(c)
    /\ IF ~LoggedIn(c)
       THEN Respond(c, "get_energy_data", Nil, JsonError(401, "Not authenticated"))
       ELSE \E ordered \in OrderByTimestamp(EventsOf(View(c), session[c].user_id)) :
            \E limit \in Limits :
              Begin(c, "get_energy_data", "select_stats", [limit |-> limit],
                    [user_id |-> session[c].user_id,
                     all_records |-> Limit(ordered, limit)])
    /\ UNCHANGED <<db, txn, now, rng, session>>

get_energy_data_select_stats(c) ==
    /\ At(c, "get_energy_data", "select_stats")
    /\ LET stats == Stats(View(c), req[c].loc.user_id)
           all_records == req[c].loc.all_records
           recent == RecentRecords(all_records)
       IN Finish(c, [kind |-> "json", to |-> 200, category |-> "success", flash |-> "",
                     total_steps |-> OrZero(stats.total_steps),
                     total_energy |-> MilliJoules(OrZero(stats.total_energy)),
                     avg_energy |-> AvgMilliJoules(stats),
                     max_energy |-> MilliJoules(OrZero(stats.max_energy)),
                     min_energy |-> MilliJoules(OrZero(stats.min_energy)),
                     total_energy_wh |-> WattHours(OrZero(stats.total_energy)),
                     chart_labels |-> [i \in 1..Len(all_records) |->
                                          all_records[i].footsteps],
                     chart_energy |-> [i \in 1..Len(all_records) |->
                                          MilliJoules(all_records[i].energy_generated)],
                     recent_records |-> [i \in 1..Len(recent) |-> Record(recent[i])]])
    /\ UNCHANGED <<db, txn, now, rng, session>>

(***************************************************************************)
(* clear_data                                                              *)
(***************************************************************************)
\* Mutant: a DELETE that spares the newest row of the user.
DeleteEnergy_but_newest(d, uid) ==
    [d EXCEPT !.energy = {e \in @ : \/ e.user_id # uid
                                    \/ \A e2 \in @ : e2.user_id = uid => e2.id <= e.id}]

\* DELETE FROM energy_data WHERE user_id = ?
DeleteEnergy(d, uid) == [d EXCEPT !.energy = {e \in @ : e.user_id # uid}]

clear_data_select(c) ==
    /\ Ready(c)
    /\ IF ~LoggedIn(c)
       THEN Respond(c, "clear_data", Nil, JsonError(401, "Not authenticated"))
       ELSE Begin(c, "clear_data", "delete", Nil,
                  [user_id |-> session[c].user_id,
                   count_before |-> Cardinality(EventsOf(View(c), session[c].user_id))])
    /\ UNCHANGED <<db, txn, now, rng, session>>

clear_data_delete(c) ==
    /\ At(c, "clear_data", "delete")
    /\ CanWrite(c)
    /\ Write(c, DeleteEnergy(View(c), req[c].loc.user_id))
    /\ Goto(c, "commit", req[c].loc)
    /\ UNCHANGED <<db, now, rng, session>>

clear_data_commit(c) ==
    /\ At(c, "clear_data", "commit")
    /\ Commit(c)
    /\ Finish(c, [kind |-> "json", to |-> 200, category |-> "success", flash |-> "",
                  records_deleted |-> req[c].loc.count_before])
    /\ UNCHANGED <<now, rng, session>>

(***************************************************************************)
(* get_dashboard_stats                                                     *)
(***************************************************************************)
HOURS_PER_DAY == 24

\* date(timestamp), the clock counting hours
Date(t) == t \div HOURS_PER_DAY

get_dashboard_stats_select(c) ==
    /\ Ready(c)
    /\ IF ~LoggedIn(c)
       THEN Respond(c, "get_dashboard_stats", Nil, JsonError(401, "Not authenticated"))
       ELSE Begin(c, "get_dashboard_stats", "select_today", Nil,
                  [user_id |-> session[c].user_id,
                   stats |-> Stats(View(c), session[c].user_id)])
    /\ UNCHANGED <<db, txn, now, rng, session>>

\* .. AND date(timestamp) = date('now')
get_dashboard_stats_select_today(c) ==
    /\ At(c, "get_dashboard_stats", "select_today")
    /\ LET stats == req[c].loc.stats
           today == {e \in EventsOf(View(c), req[c].loc.user_id) :
                        Date(e.timestamp) = Date(now)}
           total_energy_j == OrZero(stats.total_energy)
           energy_today_j == OrZero(Aggregate(today, SetSum(today)))
       IN Finish(c, [kind |-> "json", to |-> 200, category |-> "success", flash |-> "",
                     total_steps |-> OrZero(stats.total_steps),
                     total_energy_mj |-> MilliJoules(total_energy_j),
                     total_energy_wh |-> WattHours(total_energy_j),
                     avg_energy |-> AvgMilliJoules(stats),
                     steps_today |-> OrZero(Cardinality(today)),
                     energy_today |-> MilliJoules(energy_today_j),
                     energy_value_inr |-> ValueINR(total_energy_j)])
    /\ UNCHANGED <<db, txn, now, rng, session>>

(***************************************************************************)
(* forgot_password                                                         *)
(***************************************************************************)
\* Config.RESET_TOKEN_EXPIRY_HOURS / timedelta(hours=1)
RESET_TOKEN_EXPIRY_HOURS == 1

MSG_EMAIL_REQUIRED == "Email address is required"
MSG_LINK_GENERATED ==
    "Password reset link has been generated. Check your terminal/console for the link, or check your email if configured."
MSG_IF_ACCOUNT_EXISTS ==
    "If an account exists with this email, a reset link has been generated."

UsersByEmail(d, email) == {u \in d.users : u.email = email}

\* cursor.fetchone(): the first row of a SELECT without ORDER BY, which is
\* any of its rows; None when it has none.
NoRow == [id |-> 0]

FetchOne(rows) == IF rows = {} THEN {NoRow} ELSE rows

\* The message flashed by forgot_password once the lookup is done.
ForgotMessage(found) == IF found THEN MSG_LINK_GENERATED ELSE MSG_IF_ACCOUNT_EXISTS

\* INSERT INTO password_reset_tokens (email, token, expires_at); id is
\* AUTOINCREMENT, created_at CURRENT_TIMESTAMP (SQLite's clock when the
\* statement runs; the server's local time is taken to be UTC), used
\* DEFAULT 0.
InsertToken(d, email, token, expires_at) ==
    [d EXCEPT !.tokens = @ \cup {[id |-> d.seq.tokens + 1, email |-> email,
                                   token |-> token, created_at |-> now,
                                   expires_at |-> expires_at, used |-> FALSE]},
              !.seq.tokens = @ + 1]

forgot_password_select(c, Emails, limit) ==
    /\ Ready(c)
    /\ \E raw \in Emails :
         LET email == Lower(Strip(raw))
             args == [email |-> raw]
         IN IF email = <<>>
            THEN /\ Respond(c, "forgot_password", args,
                            Page("forgot_password.html", "error", MSG_EMAIL_REQUIRED))
                 /\ rng' = rng
            ELSE IF UsersByEmail(View(c), email) = {}
            THEN /\ Respond(c, "forgot_password", args,
                            Redirect("login", "info", ForgotMessage(FALSE)))
                 /\ rng' = rng
            ELSE /\ rng < limit
                 /\ rng' = rng + 1
                 /\ \E user \in FetchOne(UsersByEmail(View(c), email)) :
                      Begin(c, "forgot_password", "insert", args,
                            [email |-> email, token |-> rng + 1,
                             expires_at |-> now + RESET_TOKEN_EXPIRY_HOURS,
                             user_id |-> user.id])
    /\ UNCHANGED <<db, txn, now, session>>

forgot_password_insert(c) ==
    /\ At(c, "forgot_password", "insert")
    /\ CanWrite(c)
    /\ IF \E t \in View(c).tokens : t.token = req[c].loc.token
       THEN \* token TEXT UNIQUE: IntegrityError
            /\ Finish(c, Page("forgot_password.html", "error",
                              "An error occurred. Please try again."))
            /\ txn' = txn
       ELSE /\ Write(c, InsertToken(View(c), req[c].loc.email, req[c].loc.token,
                                    req[c].loc.expires_at))
            /\ Goto(c, "commit", req[c].loc)
    /\ UNCHANGED <<db, now, rng, session>>

forgot_password_commit(c) ==
    /\ At(c, "forgot_password", "commit")
    /\ Commit(c)
    /\ Goto(c, "send", req[c].loc)
    /\ UNCHANGED <<now, rng, session>>

\* Mutant: the delivery called outside any try, its result taken as the
\* handler's.
DeliveryFails_uncaught(delivery) == delivery \in {"failed", "raised"}

\* Whether the outcome of the delivery (no service, sent, send_email
\* returning False, an exception) makes the handler fail: the call sits in
\* its own try/except and its result is dropped.
DeliveryFails(delivery) == FALSE

\* email_service.send_password_reset_email, then the flash and the redirect.
forgot_password_send(c, Deliveries) ==
    /\ At(c, "forgot_password", "send")
    /\ \E delivery \in Deliveries :
         IF DeliveryFails(delivery)
         THEN Finish(c, Page("forgot_password.html", "error",
                             "An error occurred. Please try again.")
                          @@ [delivery |-> delivery, token |-> req[c].loc.token,
                              user_id |-> req[c].loc.user_id])
         ELSE Finish(c, Redirect("login", "info", ForgotMessage(TRUE))
                          @@ [delivery |-> delivery, token |-> req[c].loc.token,
                              user_id |-> req[c].loc.user_id])
    /\ UNCHANGED <<db, txn, now, rng, session>>

(***************************************************************************)
(* reset_password                                                          *)
(***************************************************************************)
MSG_INVALID_LINK == "Invalid reset link"
MSG_ALREADY_USED == "This reset link has already been used"
MSG_EXPIRED == "Reset link has expired"
MSG_RESET_DONE == "Password successfully reset! Please log in."

\* sqlite3 stores a datetime as its ISO text (the fraction left out when it
\* is zero) and datetime.fromisoformat reads the text back.
adapt_datetime(t) == [hours |-> t, fraction |-> "absent"]

fromisoformat(text) == text.hours

\* Mutants of the token checks: the used flag not looked at, a link
\* refused in the last instant of its life, the expiry not looked at.
TokenVerdict_ignores_used(d, token, clock) ==
    LET rows == {t \in d.tokens : t.token = token}
    IN IF rows = {} THEN "NotFound"
       ELSE LET token_data == CHOOSE t \in rows : TRUE
            IN IF fromisoformat(adapt_datetime(token_data.expires_at)) < clock
               THEN "Expired"
               ELSE "Valid"

TokenVerdict_expired_at_deadline(d, token, clock) ==
    LET rows == {t \in d.tokens : t.token = token}
    IN IF rows = {} THEN "NotFound"
       ELSE LET token_data == CHOOSE t \in rows : TRUE
            IN IF token_data.used THEN "AlreadyUsed"
               ELSE IF fromisoformat(adapt_datetime(token_data.expires_at)) <= clock
               THEN "Expired"
               ELSE "Valid"

TokenVerdict_never_expires(d, token, clock) ==
    LET rows == {t \in d.tokens : t.token = token}
    IN IF rows = {} THEN "NotFound"
       ELSE LET token_data == CHOOSE t \in rows : TRUE
            IN IF token_data.used THEN "AlreadyUsed" ELSE "Valid"

\* The verdict of the token checks that open reset_password.
TokenVerdict(d, token, clock) ==
    LET rows == {t \in d.tokens : t.token = token}
    IN IF rows = {} THEN "NotFound"
       ELSE LET token_data == CHOOSE t \in rows : TRUE
            IN IF token_data.used THEN "AlreadyUsed"
               ELSE IF fromisoformat(adapt_datetime(token_data.expires_at)) < clock
               THEN "Expired"
               ELSE "Valid"

VerdictMessage(v) ==
    CASE v = "NotFound" -> MSG_INVALID_LINK
      [] v = "AlreadyUsed" -> MSG_ALREADY_USED
      [] v = "Expired" -> MSG_EXPIRED

p_new1 == <<"n", "e", "w", "p", "w", "1">>
p_new2 == <<"n", "e", "w", "p", "w", "2">>
p_short == <<"s", "h", "o", "r", "t">>

Get == [method |-> "GET", password |-> <<>>, confirm_password |-> <<>>]

Post(password, confirm_password) ==
    [method |-> "POST", password |-> password, confirm_password |-> confirm_password]

\* The tokens a caller may present: every token ever generated and one
\* string that never was.
TokenInputs == 0..MaxTokens

\* Mutant: a link spent by a POST whose form is then refused.
reset_password_select_spends_link(c, Forms) ==
    /\ Ready(c)
    /\ \E token \in TokenInputs, form \in Forms :
         LET args == [token |-> token] @@ form
             verdict == TokenVerdict(View(c), token, now)
         IN IF verdict # "Valid"
            THEN /\ Respond(c, "reset_password", args,
                            Redirect("login", "error", VerdictMessage(verdict)))
                 /\ db' = db
            ELSE IF form.method = "GET"
            THEN /\ Respond(c, "reset_password", args, Page("reset_password.html", "", ""))
                 /\ db' = db
            ELSE IF Len(form.password) < MIN_PASSWORD_LEN
            THEN /\ Respond(c, "reset_password", args,
                            Page("reset_password.html", "error", MSG_PASSWORD_SHORT))
                 /\ db' = [db EXCEPT !.tokens = {IF t.token = token
                                                 THEN [t EXCEPT !.used = TRUE]
                                                 ELSE t : t \in @}]
            ELSE IF form.password # form.confirm_password
            THEN /\ Respond(c, "reset_password", args,
                            Page("reset_password.html", "error", MSG_PASSWORD_MISMATCH))
                 /\ db' = db
            ELSE /\ Begin(c, "reset_password", "update_password", args,
                          [email |-> (CHOOSE t \in View(c).tokens : t.token = token).email,
                           password_hash |-> generate_password_hash(form.password)])
                 /\ db' = db
    /\ UNCHANGED <<txn, now, rng, session>>

reset_password_select(c, Forms) ==
    /\ Ready(c)
    /\ \E token \in TokenInputs, form \in Forms :
         LET args == [token |-> token] @@ form
             verdict == TokenVerdict(View(c), token, now)
         IN IF verdict # "Valid"
            THEN Respond(c, "reset_password", args,
                         Redirect("login", "error", VerdictMessage(verdict)))
            ELSE IF form.method = "GET"
            THEN Respond(c, "reset_password", args, Page("reset_password.html", "", ""))
            ELSE IF Len(form.password) < MIN_PASSWORD_LEN
            THEN Respond(c, "reset_password", args,
                         Page("reset_password.html", "error", MSG_PASSWORD_SHORT))
            ELSE IF form.password # form.confirm_password
            THEN Respond(c, "reset_password", args,
                         Page("reset_password.html", "error", MSG_PASSWORD_MISMATCH))
            ELSE Begin(c, "reset_password", "update_password", args,
                       [email |-> (CHOOSE t \in View(c).tokens : t.token = token).email,
                        password_hash |-> generate_password_hash(form.password)])
    /\ UNCHANGED <<db, txn, now, rng, session>>

\* UPDATE users SET password_hash = ? WHERE email = ?
UpdatePasswordByEmail(d, email, password_hash) ==
    [d EXCEPT !.users = {IF u.email = email
                         THEN [u EXCEPT !.password_hash = password_hash]
                         ELSE u : u \in @}]

\* Mutant: every token of the email marked, not the one presented.
MarkTokenUsed_all_of_email(d, token) ==
    [d EXCEPT !.tokens = {IF \E t2 \in @ : t2.token = token /\ t2.email = t.email
                          THEN [t EXCEPT !.used = TRUE] ELSE t : t \in @}]

\* UPDATE password_reset_tokens SET used = 1 WHERE token = ?
MarkTokenUsed(d, token) ==
    [d EXCEPT !.tokens = {IF t.token = token THEN [t EXCEPT !.used = TRUE] ELSE t : t \in @}]

\* Mutant: the password UPDATE committed on its own (an autocommit
\* connection), before the token is marked.
reset_password_update_password_autocommit(c) ==
    /\ At(c, "reset_password", "update_password")
    /\ CanWrite(c)
    /\ db' = UpdatePasswordByEmail(db, req[c].loc.email, req[c].loc.password_hash)
    /\ Goto(c, "mark_used", req[c].loc)
    /\ UNCHANGED <<txn, now, rng, session>>

reset_password_update_password(c) ==
    /\ At(c, "reset_password", "update_password")
    /\ CanWrite(c)
    /\ Write(c, UpdatePasswordByEmail(View(c), req[c].loc.email, req[c].loc.password_hash))
    /\ Goto(c, "mark_used", req[c].loc)
    /\ UNCHANGED <<db, now, rng, session>>

reset_password_mark_used(c) ==
    /\ At(c, "reset_password", "mark_used")
    /\ CanWrite(c)
    /\ Write(c, MarkTokenUsed(View(c), req[c].args.token))
    /\ Goto(c, "commit", req[c].loc)
    /\ UNCHANGED <<db, now, rng, session>>

reset_password_commit(c) ==
    /\ At(c, "reset_password", "commit")
    /\ Commit(c)
    /\ Finish(c, Redirect("login", "success", MSG_RESET_DONE))
    /\ UNCHANGED <<now, rng, session>>

(***************************************************************************)
(* The users table: username TEXT UNIQUE, email TEXT UNIQUE, id INTEGER    *)
(* PRIMARY KEY AUTOINCREMENT; last_login is NULL until the first login.    *)
(***************************************************************************)
\* Mutant: the table created without its UNIQUE constraints.
UniqueViolation_unconstrained(d, id, username, email) == FALSE

\* Whether writing (username, email) into the row `id` breaks a UNIQUE
\* constraint: sqlite3.IntegrityError.
UniqueViolation(d, id, username, email) ==
    \E u \in d.users : u.id # id /\ (u.username = username \/ u.email = email)

\* Mutant: an id column without AUTOINCREMENT, the new id one more than
\* the highest id in the table.
InsertUser_highest_plus_one(d, username, email, password_hash) ==
    [d EXCEPT !.users = @ \cup {[id |-> SetMax({u.id : u \in d.users}) + 1,
                                  username |-> username,
                                  email |-> email, password_hash |-> password_hash,
                                  last_login |-> NULL]},
              !.seq.users = @ + 1]

\* INSERT INTO users (username, email, password_hash)
InsertUser(d, username, email, password_hash) ==
    [d EXCEPT !.users = @ \cup {[id |-> d.seq.users + 1, username |-> username,
                                  email |-> email, password_hash |-> password_hash,
                                  last_login |-> NULL]},
              !.seq.users = @ + 1]

\* Mutant: a username lookup that finds nothing.
UsersByUsername_blind(d, username) == {}

UsersByUsername(d, username) == {u \in d.users : u.username = username}

UsersById(d, id) == {u \in d.users : u.id = id}

(***************************************************************************)
(* register                                                                *)
(***************************************************************************)
MIN_USERNAME_LEN == 3

MSG_USERNAME_SHORT == "Username must be at least 3 characters long"
MSG_EMAIL_INVALID == "Valid email address is required"
MSG_USERNAME_TAKEN == "Username already taken"
MSG_EMAIL_TAKEN == "Email already registered"
MSG_REGISTERED == "Registration successful! Welcome to Smart Tile System."
MSG_REGISTER_FAILED == "Registration failed. Please try again."

\* Mutant: an email checked for being there, not for its '@'.
RegisterErrors_any_email(username, email, password, confirm_password) ==
    (IF Len(username) < MIN_USERNAME_LEN THEN <<MSG_USERNAME_SHORT>> ELSE <<>>)
    \o (IF email = <<>> THEN <<MSG_EMAIL_INVALID>> ELSE <<>>)
    \o (IF Len(password) < MIN_PASSWORD_LEN THEN <<MSG_PASSWORD_SHORT>> ELSE <<>>)
    \o (IF password # confirm_password THEN <<MSG_PASSWORD_MISMATCH>> ELSE <<>>)

\* The validation errors of register, in the order they are flashed.
RegisterErrors(username, email, password, confirm_password) ==
    (IF Len(username) < MIN_USERNAME_LEN THEN <<MSG_USERNAME_SHORT>> ELSE <<>>)
    \o (IF email = <<>> \/ ~Contains(email, "@") THEN <<MSG_EMAIL_INVALID>> ELSE <<>>)
    \o (IF Len(password) < MIN_PASSWORD_LEN THEN <<MSG_PASSWORD_SHORT>> ELSE <<>>)
    \o (IF password # confirm_password THEN <<MSG_PASSWORD_MISMATCH>> ELSE <<>>)

register_select_username(c, Forms) ==
    /\ Ready(c)
    /\ \E form \in Forms :
         LET username == Strip(form.username)
             email == Lower(Strip(form.email))
             errors == RegisterErrors(username, email, form.password,
                                      form.confirm_password)
         IN IF errors # <<>>
            THEN Respond(c, "register", form, Page("register.html", "error", errors))
            ELSE IF UsersByUsername(View(c), username) # {}
            THEN Respond(c, "register", form,
                         Page("register.html", "error", MSG_USERNAME_TAKEN))
            ELSE /\ db.seq.users < MaxUsers
                 /\ Begin(c, "register", "select_email", form,
                          [username |-> username, email |-> email])
    /\ UNCHANGED <<db, txn, now, rng, session>>

register_select_email(c) ==
    /\ At(c, "register", "select_email")
    /\ IF UsersByEmail(View(c), req[c].loc.email) # {}
       THEN Finish(c, Page("register.html", "error", MSG_EMAIL_TAKEN))
       ELSE Goto(c, "insert", req[c].loc)
    /\ UNCHANGED <<db, txn, now, rng, session>>

register_insert(c) ==
    /\ At(c, "register", "insert")
    /\ CanWrite(c)
    /\ IF UniqueViolation(View(c), 0, req[c].loc.username, req[c].loc.email)
       THEN /\ Finish(c, Page("register.html", "error", MSG_REGISTER_FAILED))
            /\ txn' = txn
       ELSE /\ Write(c, InsertUser(View(c), req[c].loc.username, req[c].loc.email,
                                   generate_password_hash(req[c].args.password)))
            /\ Goto(c, "commit", req[c].loc @@ [user_id |-> View(c).seq.users + 1])
    /\ UNCHANGED <<db, now, rng, session>>

\* conn.commit(), then the automatic login; a failure of the welcome email
\* is swallowed.
register_commit(c) ==
    /\ At(c, "register", "commit")
    /\ Commit(c)
    /\ session' = [session EXCEPT ![c] = [user_id |-> req[c].loc.user_id,
                                          username |-> req[c].loc.username,
                                          email |-> req[c].loc.email]]
    /\ Finish(c, Redirect("dashboard", "success", MSG_REGISTERED)
                   @@ [user_id |-> req[c].loc.user_id])
    /\ UNCHANGED <<now, rng>>

(***************************************************************************)
(* login                                                                   *)
(***************************************************************************)
MSG_LOGIN_REQUIRED == "Username/Email and password are required"
MSG_INVALID_CREDENTIALS == "Invalid username/email or password"
MSG_WELCOME_BACK == "Welcome back"
MSG_LOGIN_FAILED == "Login failed. Please try again."

\* SELECT .. FROM users WHERE username = ? OR email = ?
UsersByIdentifier(d, identifier) ==
    {u \in d.users : u.username = identifier \/ u.email = identifier}

\* Mutant: a rejection that tells an unknown identifier from a wrong
\* password.
LoginRejection_reveals(user) ==
    IF user = NoRow
    THEN Page("login.html", "error", "No account with this username/email")
    ELSE Page("login.html", "error", MSG_INVALID_CREDENTIALS)

\* The answer to a login whose row is missing or whose hash does not
\* verify: one flash, one template, whichever of the two happened.
LoginRejection(user) == Page("login.html", "error", MSG_INVALID_CREDENTIALS)

login_select(c, Forms) ==
    /\ Ready(c)
    /\ \E form \in Forms :
         LET identifier == Lower(Strip(form.username))
         IN IF identifier = <<>> \/ form.password = <<>>
            THEN Respond(c, "login", form, Page("login.html", "error", MSG_LOGIN_REQUIRED))
            ELSE \E user \in FetchOne(UsersByIdentifier(View(c), identifier)) :
                   IF user # NoRow /\ check_password_hash(user.password_hash, form.password)
                   THEN Begin(c, "login", "update_last_login", form,
                              [user_id |-> user.id, username |-> user.username,
                               email |-> user.email])
                   ELSE Respond(c, "login", form, LoginRejection(user))
    /\ UNCHANGED <<db, txn, now, rng, session>>

\* Mutant: the UPDATE without its WHERE clause.
UpdateLastLogin_everyone(d, id, t) ==
    [d EXCEPT !.users = {[u EXCEPT !.last_login = t] : u \in @}]

\* UPDATE users SET last_login = ? WHERE id = ?
UpdateLastLogin(d, id, t) ==
    [d EXCEPT !.users = {IF u.id = id THEN [u EXCEPT !.last_login = t] ELSE u : u \in @}]

login_update_last_login(c) ==
    /\ At(c, "login", "update_last_login")
    /\ CanWrite(c)
    /\ Write(c, UpdateLastLogin(View(c), req[c].loc.user_id, now))
    /\ Goto(c, "commit", req[c].loc)
    /\ UNCHANGED <<db, now, rng, session>>

login_commit(c) ==
    /\ At(c, "login", "commit")
    /\ Commit(c)
    /\ session' = [session EXCEPT ![c] = req[c].loc]
    /\ Finish(c, Redirect("dashboard", "success", MSG_WELCOME_BACK)
                   @@ [user_id |-> req[c].loc.user_id])
    /\ UNCHANGED <<now, rng>>

(***************************************************************************)
(* update_profile                                                          *)
(***************************************************************************)
MSG_PLEASE_LOG_IN == "Please log in"
MSG_USERNAME_SHORT_PROFILE == "Username must be at least 3 characters"
MSG_EMAIL_INVALID_PROFILE == "Valid email is required"
MSG_PROFILE_TAKEN == "Username or email already taken"
MSG_PROFILE_UPDATED == "Profile updated successfully!"
MSG_PROFILE_FAILED == "Failed to update profile"

\* Mutant: the check without its `AND id != ?`.
TakenByOther_or_self(d, id, username, email) ==
    \E u \in d.users : u.username = username \/ u.email = email

\* SELECT id FROM users WHERE (username = ? OR email = ?) AND id != ?
TakenByOther(d, id, username, email) ==
    \E u \in d.users : (u.username = username \/ u.email = email) /\ u.id # id

update_profile_select(c, Forms) ==
    /\ Ready(c)
    /\ \E form \in Forms :
         LET username == Strip(form.username)
             email == Lower(Strip(form.email))
         IN IF ~LoggedIn(c)
            THEN Respond(c, "update_profile", form,
                         Redirect("login", "error", MSG_PLEASE_LOG_IN))
            ELSE IF Len(username) < MIN_USERNAME_LEN
            THEN Respond(c, "update_profile", form,
                         Redirect("profile", "error", MSG_USERNAME_SHORT_PROFILE))
            ELSE IF email = <<>> \/ ~Contains(email, "@")
            THEN Respond(c, "update_profile", form,
                         Redirect("profile", "error", MSG_EMAIL_INVALID_PROFILE))
            ELSE IF TakenByOther(View(c), session[c].user_id, username, email)
            THEN Respond(c, "update_profile", form,
                         Redirect("profile", "error", MSG_PROFILE_TAKEN))
            ELSE Begin(c, "update_profile", "update", form,
                       [user_id |-> session[c].user_id, username |-> username,
                        email |-> email])
    /\ UNCHANGED <<db, txn, now, rng, session>>

\* UPDATE users SET username = ?, email = ? WHERE id = ?
UpdateUser(d, id, username, email) ==
    [d EXCEPT !.users = {IF u.id = id
                         THEN [u EXCEPT !.username = username, !.email = email]
                         ELSE u : u \in @}]

update_profile_update(c) ==
    /\ At(c, "update_profile", "update")
    /\ CanWrite(c)
    /\ IF /\ UsersById(View(c), req[c].loc.user_id) # {}
          /\ UniqueViolation(View(c), req[c].loc.user_id, req[c].loc.username,
                             req[c].loc.email)
       THEN /\ Finish(c, Redirect("profile", "error", MSG_PROFILE_FAILED))
            /\ txn' = txn
       ELSE /\ Write(c, UpdateUser(View(c), req[c].loc.user_id, req[c].loc.username,
                                   req[c].loc.email))
            /\ Goto(c, "commit", req[c].loc)
    /\ UNCHANGED <<db, now, rng, session>>

update_profile_commit(c) ==
    /\ At(c, "update_profile", "commit")
    /\ Commit(c)
    /\ session' = [session EXCEPT ![c].username = req[c].loc.username,
                                  ![c].email = req[c].loc.email]
    /\ Finish(c, Redirect("profile", "success", MSG_PROFILE_UPDATED))
    /\ UNCHANGED <<now, rng>>

(***************************************************************************)
(* change_password                                                         *)
(***************************************************************************)
MSG_CURRENT_REQUIRED == "Current password is required"
MSG_NEW_PASSWORD_SHORT == "New password must be at least 6 characters"
MSG_CURRENT_INCORRECT == "Current password is incorrect"
MSG_PASSWORD_CHANGED == "Password changed successfully!"
MSG_CHANGE_FAILED == "Failed to change password"

\* The checks of the form, in the order of the code; "" when it passes.
ChangePasswordError(current_password, new_password, confirm_password) ==
    IF current_password = <<>> THEN MSG_CURRENT_REQUIRED
    ELSE IF Len(new_password) < MIN_PASSWORD_LEN THEN MSG_NEW_PASSWORD_SHORT
    ELSE IF new_password # confirm_password THEN MSG_PASSWORD_MISMATCH
    ELSE ""

change_password_select(c, Forms) ==
    /\ Ready(c)
    /\ \E form \in Forms :
         LET error == ChangePasswordError(form.current_password, form.new_password,
                                         form.confirm_password)
             rows == UsersById(View(c), session[c].user_id)
         IN IF ~LoggedIn(c)
            THEN Respond(c, "change_password", form,
                         Redirect("login", "error", MSG_PLEASE_LOG_IN))
            ELSE IF error # ""
            THEN Respond(c, "change_password", form,
                         Redirect("settings", "error", error))
            ELSE IF rows = {}
            THEN \* user is None: TypeError, caught
                 Respond(c, "change_password", form,
                         Redirect("settings", "error", MSG_CHANGE_FAILED))
            ELSE LET user == CHOOSE u \in rows : TRUE
                 IN IF ~check_password_hash(user.password_hash, form.current_password)
                    THEN Respond(c, "change_password", form,
                                 Redirect("settings", "error", MSG_CURRENT_INCORRECT))
                    ELSE Begin(c, "change_password", "update", form,
                               [user_id |-> session[c].user_id,
                                new_hash |-> generate_password_hash(form.new_password)])
    /\ UNCHANGED <<db, txn, now, rng, session>>

\* Mutant: an UPDATE that matches no row.
UpdatePasswordById_noop(d, id, password_hash) == d

\* UPDATE users SET password_hash = ? WHERE id = ?
UpdatePasswordById(d, id, password_hash) ==
    [d EXCEPT !.users = {IF u.id = id THEN [u EXCEPT !.password_hash = password_hash]
                         ELSE u : u \in @}]

change_password_update(c) ==
    /\ At(c, "change_password", "update")
    /\ CanWrite(c)
    /\ Write(c, UpdatePasswordById(View(c), req[c].loc.user_id, req[c].loc.new_hash))
    /\ Goto(c, "commit", req[c].loc)
    /\ UNCHANGED <<db, now, rng, session>>

change_password_commit(c) ==
    /\ At(c, "change_password", "commit")
    /\ Commit(c)
    /\ Finish(c, Redirect("settings", "success", MSG_PASSWORD_CHANGED))
    /\ UNCHANGED <<now, rng, session>>

\* logout: session.clear(), with or without a session
logout(c) ==
    /\ Ready(c)
    /\ session' = [session EXCEPT ![c] = NoSession]
    /\ Respond(c, "logout", Nil, Redirect("login", "info", "Goodbye"))
    /\ UNCHANGED <<db, txn, now, rng>>

(***************************************************************************)
(* delete_account                                                          *)
(***************************************************************************)
MSG_DELETE_PASSWORD_REQUIRED == "Password is required to delete account"
MSG_INCORRECT_PASSWORD == "Incorrect password"
MSG_ACCOUNT_DELETED == "Your account has been deleted"
MSG_DELETE_FAILED == "Failed to delete account"

\* PRAGMA foreign_keys of a connection made by get_db: SQLite leaves
\* foreign keys off unless the connection turns them on.
FOREIGN_KEYS == FALSE

\* DELETE FROM password_reset_tokens WHERE email = ?
DeleteTokensByEmail(d, email) ==
    [d EXCEPT !.tokens = {t \in @ : t.email # email}]

\* DELETE FROM users WHERE id = ?; energy_data.user_id REFERENCES users (id)
\* ON DELETE CASCADE acts when foreign keys are on.
DeleteUser(d, id) ==
    [d EXCEPT !.users = {u \in @ : u.id # id},
              !.energy = IF FOREIGN_KEYS THEN {e \in @ : e.user_id # id} ELSE @]

delete_account_select(c, Passwords) ==
    /\ Ready(c)
    /\ \E password \in Passwords :
         LET args == [password |-> password]
             rows == UsersById(View(c), session[c].user_id)
         IN IF ~LoggedIn(c)
            THEN Respond(c, "delete_account", args,
                         Redirect("login", "error", MSG_PLEASE_LOG_IN))
            ELSE IF password = <<>>
            THEN Respond(c, "delete_account", args,
                         Redirect("settings", "error", MSG_DELETE_PASSWORD_REQUIRED))
            ELSE IF rows = {}
            THEN \* user is None: TypeError, caught
                 Respond(c, "delete_account", args,
                         Redirect("settings", "error", MSG_DELETE_FAILED))
            ELSE LET user == CHOOSE u \in rows : TRUE
                 IN IF ~check_password_hash(user.password_hash, password)
                    THEN Respond(c, "delete_account", args,
                                 Redirect("settings", "error", MSG_INCORRECT_PASSWORD))
                    ELSE Begin(c, "delete_account", "delete_tokens", args,
                               [user_id |-> session[c].user_id, email |-> user.email])
    /\ UNCHANGED <<db, txn, now, rng, session>>

delete_account_delete_tokens(c) ==
    /\ At(c, "delete_account", "delete_tokens")
    /\ CanWrite(c)
    /\ Write(c, DeleteTokensByEmail(View(c), req[c].loc.email))
    /\ Goto(c, "delete_user", req[c].loc)
    /\ UNCHANGED <<db, now, rng, session>>

delete_account_delete_user(c) ==
    /\ At(c, "delete_account", "delete_user")
    /\ CanWrite(c)
    /\ Write(c, DeleteUser(View(c), req[c].loc.user_id))
    /\ Goto(c, "commit", req[c].loc)
    /\ UNCHANGED <<db, now, rng, session>>

\* conn.commit(), then session.clear()
delete_account_commit(c) ==
    /\ At(c, "delete_account", "commit")
    /\ Commit(c)
    /\ session' = [session EXCEPT ![c] = NoSession]
    /\ Finish(c, Redirect("login", "info", MSG_ACCOUNT_DELETED)
                   @@ [user_id |-> req[c].loc.user_id, email |-> req[c].loc.email])
    /\ UNCHANGED <<now, rng>>

(***************************************************************************)
(* Faults of the storage layer.                                            *)
(***************************************************************************)
\* The response of the handler's `except Exception` clause.
MSG_ERROR_OCCURRED == "An error occurred. Please try again."

ErrorResponse(op) ==
    CASE op = "simulate_step" -> JsonError(500, "Simulation failed")
      [] op = "forgot_password" -> Page("forgot_password.html", "error", MSG_ERROR_OCCURRED)
      [] op = "reset_password" -> Redirect("login", "error", MSG_ERROR_OCCURRED)
      [] op = "register" -> Page("register.html", "error", MSG_REGISTER_FAILED)
      [] op = "login" -> Page("login.html", "error", MSG_LOGIN_FAILED)
      [] op = "update_profile" -> Redirect("profile", "error", MSG_PROFILE_FAILED)
      [] op = "delete_account" -> Redirect("settings", "error", MSG_DELETE_FAILED)
      [] op = "change_password" -> Redirect("settings", "error", MSG_CHANGE_FAILED)
      [] op = "clear_data" -> JsonError(500, "Failed to clear data")

\* A handler waiting for the write lock gives up after sqlite3's busy
\* timeout: OperationalError("database is locked").
WantsWrite(c) ==
    \/ At(c, "simulate_step", "insert")
    \/ At(c, "forgot_password", "insert")
    \/ At(c, "reset_password", "update_password")
    \/ At(c, "reset_password", "mark_used")
    \/ At(c, "register", "insert")
    \/ At(c, "login", "update_last_login")
    \/ At(c, "update_profile", "update")
    \/ At(c, "delete_account", "delete_tokens")
    \/ At(c, "delete_account", "delete_user")
    \/ At(c, "change_password", "update")
    \/ At(c, "clear_data", "delete")

Busy(c) ==
    /\ WantsWrite(c)
    /\ ~CanWrite(c)
    /\ Finish(c, ErrorResponse(req[c].op))
    /\ UNCHANGED <<db, txn, now, rng, session>>

\* A handler dies with its transaction open (the process is killed, or
\* commit raises): the connection is closed and the transaction rolled back.
Abort(c) ==
    /\ txn.owner = c
    /\ txn' = NoTxn
    /\ Finish(c, ErrorResponse(req[c].op))
    /\ UNCHANGED <<db, now, rng, session>>

\* The wall clock.
Tick ==
    /\ now < MaxTime
    /\ now' = now + 1
    /\ UNCHANGED <<db, txn, rng, session, req>>

(***************************************************************************)
(* The ledger under concurrent appends: two registered users, every client *)
(* logged in as one of them.                                               *)
(***************************************************************************)
s_alice == <<"a", "l", "i", "c", "e">>
s_bob == <<"b", "o", "b">>
e_alice == <<"a", "@", "x">>
e_bob == <<"b", "@", "x">>
p_secret1 == <<"s", "e", "c", "r", "e", "t", "1">>
p_secret2 == <<"s", "e", "c", "r", "e", "t", "2">>

UserRow(id, username, email, password) ==
    [id |-> id, username |-> username, email |-> email,
     password_hash |-> generate_password_hash(password), last_login |-> NULL]

TwoUsers ==
    [EmptyDb EXCEPT !.users = {UserRow(1, s_alice, e_alice, p_secret1),
                               UserRow(2, s_bob, e_bob, p_secret2)},
                    !.seq.users = 2]

SessionOf(d, uid) ==
    LET u == CHOOSE r \in d.users : r.id = uid
    IN [user_id |-> u.id, username |-> u.username, email |-> u.email]

InitAppend ==
    /\ db = TwoUsers
    /\ txn = NoTxn
    /\ now = 0
    /\ rng = 0
    /\ session \in [Clients -> {SessionOf(TwoUsers, 1), SessionOf(TwoUsers, 2)}]
    /\ req = [c \in Clients |-> Idle]

NextAppend ==
    \/ \E c \in Clients :
         \/ simulate_step_select(c, Samples)
         \/ simulate_step_insert(c)
         \/ simulate_step_commit(c)
         \/ simulate_step_stats(c)
         \/ Busy(c)
         \/ Abort(c)
    \/ Tick

SpecAppend == InitAppend /\ [][NextAppend]_vars

\* C1: for every user the stored sequence ('footsteps') values are exactly
\* 1..N, N the number of stored events (each successful append stores one):
\* no duplicate and no gap, under any interleaving of appends.
C1_SequenceExact ==
    \A uid \in {u.id : u \in db.users} :
        /\ {e.footsteps : e \in EventsOf(db, uid)} = 1..Cardinality(EventsOf(db, uid))
        /\ \A e1, e2 \in EventsOf(db, uid) : e1.footsteps = e2.footsteps => e1 = e2

(***************************************************************************)
(* The ledger read back: appends, clears and the reports, the first client *)
(* logged in as the first user, the second as either.                      *)
(***************************************************************************)
InitLedger ==
    /\ db = TwoUsers
    /\ txn = NoTxn
    /\ now = 0
    /\ rng = 0
    /\ session \in {[c \in Clients |-> IF c = "c1" THEN SessionOf(TwoUsers, 1)
                                       ELSE SessionOf(TwoUsers, uid)] : uid \in {1, 2}}
    /\ req = [c \in Clients |-> Idle]

OneDraw == {[force |-> 401, displacement |-> 2004]}

\* ?limit=1
Limits == {1}

NextLedger ==
    \E c \in Clients :
        \/ simulate_step_select(c, OneDraw)
        \/ simulate_step_insert(c)
        \/ simulate_step_commit(c)
        \/ simulate_step_stats(c)
        \/ clear_data_select(c)
        \/ clear_data_delete(c)
        \/ clear_data_commit(c)
        \/ get_energy_data_select_records(c, Limits)
        \/ get_energy_data_select_stats(c)
        \/ get_dashboard_stats_select(c)
        \/ get_dashboard_stats_select_today(c)
        \/ Busy(c)
        \/ Abort(c)

SpecLedger == InitLedger /\ [][NextLedger]_vars

\* C15 as claimed: the total that get_energy_data and get_dashboard_stats
\* report is the sum of the stored energies of the user's current events,
\* and the step count their number.
C15_TotalsExact ==
    [][\A c \in Clients :
          /\ (At(c, "get_energy_data", "select_stats") /\ req'[c].pc = "done") =>
                LET rows == EventsOf(db, req[c].loc.user_id)
                IN /\ req'[c].resp.total_steps = Cardinality(rows)
                   /\ 10 * req'[c].resp.total_energy = SetSum(rows)
          /\ (Starts(c, "get_dashboard_stats") /\ LoggedIn(c)) =>
                LET rows == EventsOf(db, session[c].user_id)
                IN /\ req'[c].loc.stats.total_steps = Cardinality(rows)
                   /\ OrZero(req'[c].loc.stats.total_energy) = SetSum(rows)
          /\ (At(c, "get_dashboard_stats", "select_today") /\ req'[c].pc = "done") =>
                /\ req'[c].resp.total_steps = req[c].loc.stats.total_steps
                /\ 10 * req'[c].resp.total_energy_mj
                       = OrZero(req[c].loc.stats.total_energy)
      ]_vars

\* C15 as amended: the reported total is the sum of the stored energies of
\* the user's current events, taken once and rounded to the hundredth of a
\* millijoule (so within half a hundredth of the sum), and the step count
\* is the number of those events.
C15_TotalsRoundedOnce ==
    [][\A c \in Clients :
          /\ (At(c, "get_energy_data", "select_stats") /\ req'[c].pc = "done") =>
                LET rows == EventsOf(db, req[c].loc.user_id)
                IN /\ req'[c].resp.total_steps = Cardinality(rows)
                   /\ 10 * req'[c].resp.total_energy - SetSum(rows) \in -5..5
          /\ (Starts(c, "get_dashboard_stats") /\ LoggedIn(c)) =>
                LET rows == EventsOf(db, session[c].user_id)
                IN /\ req'[c].loc.stats.total_steps = Cardinality(rows)
                   /\ OrZero(req'[c].loc.stats.total_energy) = SetSum(rows)
          /\ (At(c, "get_dashboard_stats", "select_today") /\ req'[c].pc = "done") =>
                /\ req'[c].resp.total_steps = req[c].loc.stats.total_steps
                /\ 10 * req'[c].resp.total_energy_mj
                       - OrZero(req[c].loc.stats.total_energy) \in -5..5
      ]_vars

\* after an append, a clear and two more appends both reports show two
\* steps and a total that is the rounded, not the exact, sum
C15_Witness ==
    \E c1, c2 \in Clients :
        LET rows == EventsOf(db, session[c1].user_id)
        IN /\ session[c1].user_id = session[c2].user_id
           /\ db.seq.energy = 3
           /\ Cardinality(rows) = 2
           /\ req[c1].op = "get_energy_data" /\ req[c1].pc = "done"
           /\ req[c2].op = "get_dashboard_stats" /\ req[c2].pc = "done"
           /\ req[c1].resp.total_steps = 2
           /\ req[c2].resp.total_steps = 2
           /\ req[c1].resp.total_energy = req[c2].resp.total_energy_mj
           /\ 10 * req[c1].resp.total_energy # SetSum(rows)
           /\ 10 * req[c1].resp.total_energy - SetSum(rows) \in -5..5

\* C21: for a user without events (never appended, or cleared) both
\* reports succeed with a step count of 0 and a total, an average, a
\* maximum and a minimum energy of 0: get_energy_data when its statistics
\* SELECT runs over no rows, get_dashboard_stats when its first SELECT did.
C21_EmptyTotalsAreZero ==
    [][\A c \in Clients :
          /\ (At(c, "get_energy_data", "select_stats") /\ req'[c] # req[c]
                /\ EventsOf(db, req[c].loc.user_id) = {}) =>
                /\ req'[c].pc = "done"
                /\ req'[c].resp.to = 200
                /\ req'[c].resp.category = "success"
                /\ req'[c].resp.total_steps = 0
                /\ req'[c].resp.total_energy = 0
                /\ req'[c].resp.avg_energy = 0
                /\ req'[c].resp.max_energy = 0
                /\ req'[c].resp.min_energy = 0
                /\ req'[c].resp.total_energy_wh = 0
          /\ (Starts(c, "get_dashboard_stats") /\ LoggedIn(c)
                /\ EventsOf(db, session[c].user_id) = {}) =>
                /\ req'[c].pc = "select_today"
                /\ req'[c].loc.stats.total_steps = 0
                /\ req'[c].loc.stats.total_energy = NULL
          /\ (At(c, "get_dashboard_stats", "select_today") /\ req'[c] # req[c]
                /\ req[c].loc.stats.total_energy = NULL) =>
                /\ req'[c].pc = "done"
                /\ req'[c].resp.to = 200
                /\ req'[c].resp.category = "success"
                /\ req'[c].resp.total_steps = 0
                /\ req'[c].resp.total_energy_mj = 0
                /\ req'[c].resp.avg_energy = 0
                /\ req'[c].resp.total_energy_wh = 0
                /\ req'[c].resp.energy_value_inr = 0
      ]_vars

\* the events of a user were cleared, and both reports of that user then
\* succeeded with zero steps and zero energies
C21_Witness ==
    \E c1, c2 \in Clients :
        /\ session[c1].user_id = session[c2].user_id
        /\ db.seq.energy >= 1
        /\ db.energy = {}
        /\ req[c1].op = "get_energy_data" /\ req[c1].pc = "done"
        /\ req[c1].resp.category = "success"
        /\ req[c1].resp.total_steps = 0
        /\ req[c1].resp.total_energy = 0
        /\ req[c1].resp.min_energy = 0
        /\ req[c2].op = "get_dashboard_stats" /\ req[c2].pc = "done"
        /\ req[c2].resp.category = "success"
        /\ req[c2].resp.total_steps = 0
        /\ req[c2].resp.avg_energy = 0

\* C26: the derived figures of the reports are the joule total converted
\* once (and rounded to the decimals of the report): millijoules =
\* joules * 1000, watt-hours = joules / 3600, value = watt-hours * 8 / 1000
\* (8 per kWh).  The total is in microjoules, millijoules and the value are
\* in hundredths, watt-hours in ten-thousandths; the value is
\* round(total / 4500000000), the division done in two steps to stay within
\* the integers of the checker.
C26_DerivedUnits ==
    [][\A c \in Clients :
          /\ (At(c, "get_dashboard_stats", "select_today") /\ req'[c].pc = "done") =>
                LET total == OrZero(req[c].loc.stats.total_energy)
                    k == total \div 1000
                    r == total % 1000
                    q == k \div 4500000
                    m == k % 4500000
                    value == IF 2 * m < 4500000 THEN q
                             ELSE IF 2 * m > 4500000 \/ r > 0 THEN q + 1
                             ELSE IF q % 2 = 0 THEN q ELSE q + 1
                IN /\ req'[c].resp.total_energy_mj = RoundDiv(total, 10)
                   /\ req'[c].resp.total_energy_wh = RoundDiv(total, 360000)
                   /\ req'[c].resp.energy_value_inr = value
          /\ (At(c, "get_energy_data", "select_stats") /\ req'[c].pc = "done") =>
                LET total == SetSum(EventsOf(db, req[c].loc.user_id))
                IN /\ req'[c].resp.total_energy = RoundDiv(total, 10)
                   /\ req'[c].resp.total_energy_wh = RoundDiv(total, 360000)
      ]_vars

(***************************************************************************)
(* Clearing: appends and clears only.                                      *)
(***************************************************************************)
NextClear ==
    \E c \in Clients :
        \/ simulate_step_select(c, Samples)
        \/ simulate_step_insert(c)
        \/ simulate_step_commit(c)
        \/ simulate_step_stats(c)
        \/ clear_data_select(c)
        \/ clear_data_delete(c)
        \/ clear_data_commit(c)
        \/ Busy(c)
        \/ Abort(c)

SpecClear == InitLedger /\ [][NextClear]_vars

\* C14: a clear that commits leaves its user without events, an append
\* that begins while its user has no events takes sequence number 1, and
\* the event an append commits carries the number the append took.
C14_ClearRestartsSequence ==
    [][\A c \in Clients :
          /\ (At(c, "clear_data", "commit") /\ req'[c].pc = "done"
                /\ req'[c].resp.category = "success") =>
                EventsOf(db', req[c].loc.user_id) = {}
          /\ (Starts(c, "simulate_step") /\ LoggedIn(c)
                /\ EventsOf(db, session[c].user_id) = {}) =>
                req'[c].loc.new_step_count = 1
          /\ (At(c, "simulate_step", "commit") /\ req'[c].pc = "stats") =>
                \E e \in db'.energy :
                    /\ db'.energy \ db.energy = {e}
                    /\ e.user_id = req[c].loc.user_id
                    /\ e.footsteps = req[c].loc.new_step_count
      ]_vars

\* both clients are the same user; one cleared at least one event, the
\* other then appended and was told step 1, the user's only event
C14_Witness ==
    \E c1, c2 \in Clients : \E e \in db.energy :
        /\ session[c1].user_id = session[c2].user_id
        /\ req[c1].op = "clear_data" /\ req[c1].pc = "done"
        /\ req[c1].resp.category = "success"
        /\ req[c1].resp.records_deleted >= 1
        /\ req[c2].op = "simulate_step" /\ req[c2].pc = "done"
        /\ req[c2].resp.category = "success"
        /\ req[c2].resp.step_number = 1
        /\ EventsOf(db, session[c2].user_id) = {e}
        /\ e.footsteps = 1
        /\ e.id >= 2

\* C37: the events of a user, and with them the user's sequence numbers
\* and totals, change only in the commit of an append or a clear of that
\* same user; and the sequence number an append takes is one more than the
\* highest among its own user's stored events, whatever the other users'
\* events are.
C37_OtherUsersUntouched ==
    [][/\ \A u \in db.users :
            \/ /\ EventsOf(db', u.id) = EventsOf(db, u.id)
               /\ Stats(db', u.id) = Stats(db, u.id)
            \/ \E c \in Clients :
                  /\ \/ At(c, "simulate_step", "commit")
                     \/ At(c, "clear_data", "commit")
                  /\ req'[c] # req[c]
                  /\ req[c].loc.user_id = u.id
                  /\ session[c].user_id = u.id
       /\ \A c \in Clients :
            (Starts(c, "simulate_step") /\ LoggedIn(c)) =>
                req'[c].loc.new_step_count =
                    SetMax({e.footsteps : e \in {r \in db.energy :
                                                   r.user_id = session[c].user_id}}) + 1
      ]_vars

\* user 2 appended, user 1 then appended and took sequence number 1, user
\* 2 then cleared one event: the event of user 1 is the one left
C37_Witness ==
    \E e \in db.energy :
        /\ session["c1"].user_id = 1
        /\ session["c2"].user_id = 2
        /\ req["c1"].op = "simulate_step" /\ req["c1"].pc = "done"
        /\ req["c1"].resp.category = "success"
        /\ req["c1"].resp.step_number = 1
        /\ req["c2"].op = "clear_data" /\ req["c2"].pc = "done"
        /\ req["c2"].resp.category = "success"
        /\ req["c2"].resp.records_deleted = 1
        /\ db.energy = {e}
        /\ e.user_id = 1 /\ e.footsteps = 1 /\ e.id = 2
        /\ db.seq.energy = 2

\* C31: a clear that commits leaves its user without events and reports as
\* records_deleted the number of events its DELETE removed, also when an
\* append of the user committed between its count and its DELETE.
C31_ClearCountsWhatItDeletes ==
    [][\A c \in Clients :
          (At(c, "clear_data", "commit") /\ req'[c].pc = "done"
             /\ req'[c].resp.category = "success") =>
              /\ EventsOf(db', req[c].loc.user_id) = {}
              /\ req'[c].resp.records_deleted
                     = Cardinality(EventsOf(db, req[c].loc.user_id)
                                      \ EventsOf(db', req[c].loc.user_id))
      ]_vars

\* C16 as claimed: the stored energy is force * displacement, and the
\* response of an append whose event is the only one of its user reports
\* one step and a total and an average equal to force * displacement.
C16_AsClaimed ==
    [][\A c \in Clients :
          /\ (At(c, "simulate_step", "commit") /\ req'[c].pc = "stats") =>
                \A e \in db'.energy \ db.energy :
                    /\ e.force = req[c].args.force
                    /\ e.displacement = req[c].args.displacement
                    /\ e.energy_generated = e.force * e.displacement
          /\ (At(c, "simulate_step", "stats") /\ req'[c].pc = "done"
                /\ \E e \in db.energy :
                       /\ EventsOf(db, req[c].loc.user_id) = {e}
                       /\ e.footsteps = req[c].loc.new_step_count
                       /\ e.force = req[c].args.force
                       /\ e.displacement = req[c].args.displacement) =>
                /\ req'[c].resp.category = "success"
                /\ req'[c].resp.total_steps = 1
                /\ 10 * req'[c].resp.total_energy
                       = req[c].args.force * req[c].args.displacement
                /\ 10 * req'[c].resp.avg_energy
                       = req[c].args.force * req[c].args.displacement
      ]_vars

\* C16 as amended: the stored energy is force * displacement of the stored
\* force and displacement, and the response of an append whose event is the
\* only one of its user reports one step and a total and an average that
\* both equal the reported energy of the step: force * displacement rounded
\* to the hundredth of a millijoule.
C16_StoredProductRoundedReport ==
    [][\A c \in Clients :
          /\ (At(c, "simulate_step", "commit") /\ req'[c].pc = "stats") =>
                \A e \in db'.energy \ db.energy :
                    /\ e.force = req[c].args.force
                    /\ e.displacement = req[c].args.displacement
                    /\ e.energy_generated = e.force * e.displacement
          /\ (At(c, "simulate_step", "stats") /\ req'[c].pc = "done"
                /\ \E e \in db.energy :
                       /\ EventsOf(db, req[c].loc.user_id) = {e}
                       /\ e.footsteps = req[c].loc.new_step_count
                       /\ e.force = req[c].args.force
                       /\ e.displacement = req[c].args.displacement) =>
                /\ req'[c].resp.category = "success"
                /\ req'[c].resp.total_steps = 1
                /\ req'[c].resp.total_energy = req'[c].resp.energy
                /\ req'[c].resp.avg_energy = req'[c].resp.energy
                /\ 10 * req'[c].resp.energy
                       - req[c].args.force * req[c].args.displacement \in -5..5
      ]_vars

\* one user's first append drew 600 N and 0.003 m and was told 1800 mJ
\* (1.8 J), the other's drew 401 N and 0.002004 m and was told 803.60 mJ
\* for 803.604 mJ stored
C16_Witness ==
    \E c1, c2 \in Clients :
        /\ req[c1].op = "simulate_step" /\ req[c1].pc = "done"
        /\ req[c1].resp.category = "success"
        /\ req[c1].args = [force |-> 600, displacement |-> 3000]
        /\ req[c1].resp.total_steps = 1
        /\ req[c1].resp.total_energy = 180000
        /\ req[c1].resp.avg_energy = 180000
        /\ req[c2].op = "simulate_step" /\ req[c2].pc = "done"
        /\ req[c2].resp.category = "success"
        /\ req[c2].args = [force |-> 401, displacement |-> 2004]
        /\ req[c2].resp.total_steps = 1
        /\ req[c2].resp.total_energy = 80360
        /\ \E e \in db.energy :
               e.user_id = session[c2].user_id /\ e.energy_generated = 803604

(***************************************************************************)
(* The life of an event: appends, clears and deletions of accounts.        *)
(***************************************************************************)
NextEvents ==
    \E c \in Clients :
        \/ simulate_step_select(c, OneDraw)
        \/ simulate_step_insert(c)
        \/ simulate_step_commit(c)
        \/ simulate_step_stats(c)
        \/ clear_data_select(c)
        \/ clear_data_delete(c)
        \/ clear_data_commit(c)
        \/ delete_account_select(c, {p_secret1, p_secret2})
        \/ delete_account_delete_tokens(c)
        \/ delete_account_delete_user(c)
        \/ delete_account_commit(c)
        \/ Busy(c)
        \/ Abort(c)

SpecEvents == InitLedger /\ [][NextEvents]_vars

\* C32: a stored event never changes (a row that stays keeps its user_id,
\* sequence number, force, displacement and energy, and a new row takes an
\* id no row has); a row leaves the table only in the commit of a clear of
\* its user or of the deletion of its user's account, and that step leaves
\* no event of that user behind.
C32_EventsImmutable ==
    [][/\ \A e \in db.energy :
            \/ e \in db'.energy
            \/ \E c \in Clients :
                  /\ \/ At(c, "clear_data", "commit")
                     \/ At(c, "delete_account", "commit")
                  /\ req[c].loc.user_id = e.user_id
                  /\ EventsOf(db', e.user_id) = {}
       /\ \A e2 \in db'.energy \ db.energy : \A e \in db.energy : e2.id # e.id
      ]_vars

\* a user with two events cleared them both at once while an event
\* of the other user stayed as it was stored
C32_Witness ==
    \E c \in Clients : \E e \in db.energy :
        /\ req[c].op = "clear_data" /\ req[c].pc = "done"
        /\ req[c].resp.category = "success"
        /\ req[c].resp.records_deleted = 2
        /\ EventsOf(db, session[c].user_id) = {}
        /\ e.user_id # session[c].user_id
        /\ e.energy_generated = Energy(e.force, e.displacement)

(***************************************************************************)
(* Recent events: appends and reads of the records while the clock runs.   *)
(***************************************************************************)
NextRecent ==
    \/ \E c \in Clients :
         \/ simulate_step_select(c, OneDraw)
         \/ simulate_step_insert(c)
         \/ simulate_step_commit(c)
         \/ simulate_step_stats(c)
         \/ get_energy_data_select_records(c, Limits)
         \/ get_energy_data_select_stats(c)
         \/ Busy(c)
         \/ Abort(c)
    \/ Tick

SpecRecent == InitLedger /\ [][NextRecent]_vars

\* C17: the recent records of get_energy_data are the `limit` events of the
\* user with the highest sequence numbers (all of them when there are
\* fewer), the highest first.  Stated for users whose events have distinct
\* sequence numbers.
C17_RecentNewestFirst ==
    [][\A c \in Clients :
          (Starts(c, "get_energy_data") /\ LoggedIn(c)) =>
              LET rows == EventsOf(db, session[c].user_id)
                  limit == req'[c].args.limit
                  k == IF limit < Cardinality(rows) THEN limit ELSE Cardinality(rows)
                  got == RecentRecords(req'[c].loc.all_records)
              IN (\A e1, e2 \in rows : e1.footsteps = e2.footsteps => e1 = e2) =>
                    /\ Len(got) = k
                    /\ \A i \in 1..Len(got) :
                           /\ got[i] \in rows
                           /\ Cardinality({e \in rows : e.footsteps > got[i].footsteps})
                                  = i - 1
      ]_vars

(***************************************************************************)
(* The chart series: appends and reads of a window of two events while the *)
(* clock runs.                                                             *)
(***************************************************************************)
\* ?limit=2
SeriesLimits == {2}

NextSeries ==
    \/ \E c \in Clients :
         \/ simulate_step_select(c, OneDraw)
         \/ simulate_step_insert(c)
         \/ simulate_step_commit(c)
         \/ simulate_step_stats(c)
         \/ get_energy_data_select_records(c, SeriesLimits)
         \/ get_energy_data_select_stats(c)
         \/ Busy(c)
         \/ Abort(c)
    \/ Tick

SpecSeries == InitLedger /\ [][NextSeries]_vars

\* C25: the rows that get_energy_data selects for the chart come oldest
\* first: their sequence numbers are strictly increasing, also when events
\* share a timestamp.  Stated for users whose events have distinct sequence
\* numbers.
C25_SeriesAscending ==
    [][\A c \in Clients :
          (Starts(c, "get_energy_data") /\ LoggedIn(c)) =>
              LET rows == EventsOf(db, session[c].user_id)
                  series == req'[c].loc.all_records
              IN (\A e1, e2 \in rows : e1.footsteps = e2.footsteps => e1 = e2) =>
                    \A i, j \in 1..Len(series) :
                        i < j => series[i].footsteps < series[j].footsteps
      ]_vars

(***************************************************************************)
(* Consuming reset tokens: two registered users, anonymous clients that    *)
(* request reset links for a registered email and present tokens, while    *)
(* the clock runs.                                                         *)
(***************************************************************************)
InitReset ==
    /\ db = TwoUsers
    /\ txn = NoTxn
    /\ now = 0
    /\ rng = 0
    /\ session = [c \in Clients |-> NoSession]
    /\ req = [c \in Clients |-> Idle]

ConsumeEmails == {<<"A", "@", "x", " ">>}

ConsumeForms == {Get, Post(p_new1, p_new1), Post(p_short, p_short), Post(p_new1, p_new2)}

NextConsume ==
    \/ \E c \in Clients :
         \/ forgot_password_select(c, ConsumeEmails, MaxTokens)
         \/ forgot_password_insert(c)
         \/ forgot_password_commit(c)
         \/ forgot_password_send(c, {"sent"})
         \/ reset_password_select(c, ConsumeForms)
         \/ reset_password_update_password(c)
         \/ reset_password_mark_used(c)
         \/ reset_password_commit(c)
         \/ Busy(c)
         \/ Abort(c)
    \/ Tick

SpecConsume == InitReset /\ [][NextConsume]_vars

ConsumeOk(c) ==
    /\ req[c].op = "reset_password"
    /\ req[c].pc = "done"
    /\ req[c].args.method = "POST"
    /\ req[c].resp.flash = MSG_RESET_DONE

\* C2: of two concurrent POSTs of reset_password presenting the same valid
\* token exactly one succeeds: no two requests both end in success on one
\* token.
C2_ExactlyOneConsume ==
    \A c1, c2 \in Clients :
        (c1 # c2 /\ ConsumeOk(c1) /\ ConsumeOk(c2)) => req[c1].args.token # req[c2].args.token

\* C6: the password update and the used flag of a consume are published
\* together: a step that turns a token used is the commit of a consume
\* that also sets the password of every identity with the token's email,
\* and a step that changes a stored password is the commit of a consume
\* whose token is used afterwards; a handler that dies before its commit
\* publishes neither.
C6_AtomicConsume ==
    [][/\ \A t \in db.tokens : \A t2 \in db'.tokens :
            (t2.id = t.id /\ ~t.used /\ t2.used) =>
                \E c \in Clients :
                    /\ At(c, "reset_password", "commit")
                    /\ req'[c].pc = "done"
                    /\ req'[c].resp.flash = MSG_RESET_DONE
                    /\ req[c].args.token = t.token
                    /\ \A u \in db'.users :
                           u.email = t.email => u.password_hash = req[c].loc.password_hash
       /\ \A u \in db.users : \A u2 \in db'.users :
            (u2.id = u.id /\ u2.password_hash # u.password_hash) =>
                \E c \in Clients :
                    /\ At(c, "reset_password", "commit")
                    /\ req'[c].pc = "done"
                    /\ req'[c].resp.flash = MSG_RESET_DONE
                    /\ u2.password_hash = req[c].loc.password_hash
                    /\ \E t2 \in db'.tokens : t2.token = req[c].args.token /\ t2.used
      ]_vars

C6_Witness ==
    \E t \in db.tokens : \E u \in db.users :
        /\ t.used
        /\ u.email = t.email
        /\ check_password_hash(u.password_hash, p_new1)

\* C7: a token's used flag never goes back to false (so it turns true at
\* most once), consuming never deletes a token row, and a request that
\* presents a token which is used or past its expiry ends at once with
\* AlreadyUsed or Expired, writing nothing.
C7_UsedTokenInert ==
    [][/\ \A t \in db.tokens : \A t2 \in db'.tokens : (t2.id = t.id /\ t.used) => t2.used
       /\ \A t \in db.tokens : \E t2 \in db'.tokens : t2.id = t.id /\ t2.token = t.token
       /\ \A c \in Clients :
            Starts(c, "reset_password") =>
                \A t \in db.tokens :
                    (t.token = req'[c].args.token /\ (t.used \/ now > t.expires_at)) =>
                        /\ req'[c].pc = "done"
                        /\ req'[c].resp.flash \in {MSG_ALREADY_USED, MSG_EXPIRED}
                        /\ db' = db
                        /\ txn' = txn
      ]_vars

C7_Witness ==
    \E c \in Clients :
        /\ req[c].op = "reset_password"
        /\ req[c].pc = "done"
        /\ req[c].args.method = "POST"
        /\ req[c].args.password = p_new1
        /\ req[c].args.confirm_password = p_new1
        /\ req[c].resp.flash = MSG_ALREADY_USED

\* C8: a GET of reset_password ends with NotFound when no row has the
\* token, else AlreadyUsed when the row is used, else Expired when
\* now > expires_at, else the reset form; it leaves the database unchanged.
C8_Validate ==
    [][\A c \in Clients :
          (Starts(c, "reset_password") /\ req'[c].args.method = "GET") =>
              LET rows == {t \in db.tokens : t.token = req'[c].args.token}
              IN /\ req'[c].pc = "done"
                 /\ db' = db
                 /\ txn' = txn
                 /\ Visible(req'[c].resp) =
                        IF rows = {} THEN Redirect("login", "error", MSG_INVALID_LINK)
                        ELSE IF \E t \in rows : t.used
                        THEN Redirect("login", "error", MSG_ALREADY_USED)
                        ELSE IF \E t \in rows : now > t.expires_at
                        THEN Redirect("login", "error", MSG_EXPIRED)
                        ELSE Page("reset_password.html", "", "")
      ]_vars

\* a link validated in the last instant of its life
C8_Witness ==
    \E c \in Clients : \E t \in db.tokens :
        /\ req[c].op = "reset_password"
        /\ req[c].pc = "done"
        /\ req[c].args.method = "GET"
        /\ req[c].args.token = t.token
        /\ req[c].resp.kind = "page"
        /\ now = t.expires_at

\* C29: a POST of reset_password that presents a valid token (stored,
\* unused, not past its expiry) with a password shorter than 6 characters
\* or different from its confirmation ends at once on the reset page with
\* the error of the form, and leaves the token and the passwords as they
\* were; a POST that presents a valid token with a good form goes on to the
\* password update, however many POSTs were refused for that token before.
C29_RefusedFormKeepsToken ==
    [][\A c \in Clients :
          (Starts(c, "reset_password") /\ req'[c].args.method = "POST") =>
              LET form == req'[c].args
                  valid == \E t \in db.tokens :
                              /\ t.token = form.token
                              /\ ~t.used
                              /\ now <= t.expires_at
                  short == Len(form.password) < 6
                  mismatch == form.password # form.confirm_password
              IN /\ (valid /\ (short \/ mismatch)) =>
                       /\ req'[c].pc = "done"
                       /\ Visible(req'[c].resp) =
                              Page("reset_password.html", "error",
                                   IF short THEN MSG_PASSWORD_SHORT
                                   ELSE MSG_PASSWORD_MISMATCH)
                       /\ db' = db
                       /\ txn' = txn
                 /\ (valid /\ ~short /\ ~mismatch) =>
                       /\ req'[c].pc = "update_password"
                       /\ db' = db
      ]_vars

\* one client was refused a short password on a link; the other then
\* consumed that same link, and the identity has the password it sent
C29_Witness ==
    \E c1, c2 \in Clients : \E t \in db.tokens : \E u \in db.users :
        /\ req[c1].op = "reset_password" /\ req[c1].pc = "done"
        /\ req[c1].args.method = "POST"
        /\ req[c1].resp.flash = MSG_PASSWORD_SHORT
        /\ ConsumeOk(c2)
        /\ req[c2].args.token = req[c1].args.token
        /\ t.token = req[c1].args.token
        /\ t.used
        /\ u.email = t.email
        /\ check_password_hash(u.password_hash, req[c2].args.password)

\* C9 as claimed: a GET of reset_password presenting any existing token
\* with now > expires_at ends with Expired.
C9_ExpiredAny ==
    [][\A c \in Clients :
          (Starts(c, "reset_password") /\ req'[c].args.method = "GET") =>
              \A t \in db.tokens :
                  (t.token = req'[c].args.token /\ now > t.expires_at) =>
                      req'[c].resp.flash = MSG_EXPIRED
      ]_vars

\* C9 as amended: a GET of reset_password presenting an existing unused
\* token with now > expires_at ends with Expired.
C9_ExpiredUnused ==
    [][\A c \in Clients :
          (Starts(c, "reset_password") /\ req'[c].args.method = "GET") =>
              \A t \in db.tokens :
                  (t.token = req'[c].args.token /\ now > t.expires_at /\ ~t.used) =>
                      (req'[c].pc = "done" /\ req'[c].resp.flash = MSG_EXPIRED)
      ]_vars

C9_Witness ==
    \E c \in Clients : \E t \in db.tokens :
        /\ req[c].op = "reset_password"
        /\ req[c].pc = "done"
        /\ req[c].args.method = "GET"
        /\ req[c].args.token = t.token
        /\ ~t.used
        /\ req[c].resp.flash = MSG_EXPIRED

(***************************************************************************)
(* Several links for one address: anonymous clients request links for a    *)
(* registered email and consume them while the clock runs.                 *)
(***************************************************************************)
LinkForms == {Post(p_new1, p_new1)}

NextLinks ==
    \/ \E c \in Clients :
         \/ forgot_password_select(c, ConsumeEmails, MaxIssued)
         \/ forgot_password_insert(c)
         \/ forgot_password_commit(c)
         \/ forgot_password_send(c, {"sent"})
         \/ reset_password_select(c, LinkForms)
         \/ reset_password_update_password(c)
         \/ reset_password_mark_used(c)
         \/ reset_password_commit(c)
         \/ Busy(c)
         \/ Abort(c)
    \/ Tick

SpecLinks == InitReset /\ [][NextLinks]_vars

\* C28: a forgot_password for a registered email goes on to its INSERT
\* whatever tokens the email already has, and its commit adds exactly one
\* token row, unused, for that email, and leaves every other row as it
\* was; the commit of a reset_password turns the presented token used and
\* leaves every other token row as it was; no other step changes a token
\* row.
C28_OneTokenPerIssue ==
    [][/\ \A c \in Clients :
            /\ (/\ Starts(c, "forgot_password")
                /\ UsersByEmail(db, Lower(Strip(req'[c].args.email))) # {}) =>
                   req'[c].pc = "insert"
            /\ (At(c, "forgot_password", "commit") /\ req'[c].pc = "send") =>
                   \E t \in db'.tokens :
                       /\ t \notin db.tokens
                       /\ db'.tokens = db.tokens \cup {t}
                       /\ \A t2 \in db.tokens : t2.id # t.id /\ t2.token # t.token
                       /\ t.email = req[c].loc.email
                       /\ t.token = req[c].loc.token
                       /\ ~t.used
                       /\ db'.users = db.users
            /\ (At(c, "reset_password", "commit") /\ req'[c].pc = "done"
                  /\ req'[c].resp.category = "success") =>
                   /\ \A t \in db.tokens : t.token # req[c].args.token => t \in db'.tokens
                   /\ \A t \in db'.tokens : t.token = req[c].args.token => t.used
                   /\ Cardinality(db'.tokens) = Cardinality(db.tokens)
       /\ \A t \in db.tokens :
            \/ t \in db'.tokens
            \/ \E c \in Clients :
                  /\ At(c, "reset_password", "commit")
                  /\ req[c].args.token = t.token
                  /\ [t EXCEPT !.used = TRUE] \in db'.tokens
      ]_vars

\* two links were issued for one email; one was consumed, and the other
\* is unused and would still be accepted
C28_Witness ==
    \E c \in Clients : \E t1, t2 \in db.tokens :
        /\ t1.email = t2.email
        /\ t1.id < t2.id
        /\ t1.used
        /\ ~t2.used
        /\ TokenVerdict(db, t2.token, now) = "Valid"
        /\ ConsumeOk(c)
        /\ req[c].args.token = t1.token

(***************************************************************************)
(* Requesting reset links: anonymous clients ask for links for registered  *)
(* and unregistered addresses; the delivery service may fail.              *)
(***************************************************************************)
IssueEmails == {<<"A", "@", "x", " ">>, <<"z", "@", "x">>, <<" ">>}

NextIssue ==
    \/ \E c \in Clients :
         \/ forgot_password_select(c, IssueEmails, MaxIssued)
         \/ forgot_password_insert(c)
         \/ forgot_password_commit(c)
         \/ forgot_password_send(c, {"absent", "sent", "failed", "raised"})
         \/ Busy(c)
         \/ Abort(c)
    \/ Tick

SpecIssue == InitReset /\ [][NextIssue]_vars

IssueDone(c) ==
    /\ req[c].op = "forgot_password"
    /\ req[c].pc = "done"
    /\ Lower(Strip(req[c].args.email)) # <<>>
    /\ req[c].resp.kind = "redirect"

\* C10: the response of forgot_password is the same whether or not the
\* address is registered (any two requests that ran to their end show the
\* caller the same), and a request whose address matches no identity
\* creates no token row.
C10_IssueIndistinguishable ==
    /\ [](\A c1, c2 \in Clients :
            (IssueDone(c1) /\ IssueDone(c2)) =>
                Visible(req[c1].resp) = Visible(req[c2].resp))
    /\ [][\A c \in Clients :
            (Starts(c, "forgot_password")
               /\ UsersByEmail(db, Lower(Strip(req'[c].args.email))) = {}) =>
                (req'[c].pc = "done" /\ db' = db /\ txn' = txn)]_vars

\* C30: every stored token expires exactly RESET_TOKEN_EXPIRY_HOURS (one
\* hour) after it was created: expires_at = created_at + 1 hour.
C30_ExpiryIsCreationPlusTTL ==
    \A t \in db.tokens : t.expires_at = t.created_at + RESET_TOKEN_EXPIRY_HOURS

\* C20: whatever the delivery does (no service, sent, False, an exception)
\* the request ends with the answer of a sent link, and the token row it
\* inserted is committed before the delivery is tried.
C20_DeliveryNeverFailsIssue ==
    [][\A c \in Clients :
          (At(c, "forgot_password", "send") /\ req'[c] # req[c]) =>
              /\ req'[c].pc = "done"
              /\ Visible(req'[c].resp) = Redirect("login", "info", MSG_LINK_GENERATED)
              /\ \E t \in db.tokens :
                     t.token = req[c].loc.token /\ t.email = req[c].loc.email
              /\ db' = db
      ]_vars

\* one request whose delivery raised and one whose delivery returned False
\* were answered like a sent one, their tokens stored
C20_Witness ==
    \E c1, c2 \in Clients :
        /\ req[c1].op = "forgot_password" /\ req[c1].pc = "done"
        /\ req[c2].op = "forgot_password" /\ req[c2].pc = "done"
        /\ req[c1].resp.flash = MSG_LINK_GENERATED
        /\ req[c2].resp.flash = MSG_LINK_GENERATED
        /\ req[c1].resp.delivery = "raised"
        /\ req[c2].resp.delivery = "failed"
        /\ \E t1, t2 \in db.tokens :
               t1.token = req[c1].resp.token /\ t2.token = req[c2].resp.token

(***************************************************************************)
(* Accounts: clients register, log in, edit their profile and log out,     *)
(* starting from an empty users table.                                     *)
(***************************************************************************)
s_Bob == <<"B", "o", "b">>
e_bob_raw == <<"B", "@", "x", " ">>
e_carl == <<"c", "@", "x">>

RegisterForm(username, email, password) ==
    [username |-> username, email |-> email, password |-> password,
     confirm_password |-> password]

AuthRegisterForms ==
    {RegisterForm(s_Bob, e_bob_raw, p_secret1),
     RegisterForm(s_Bob, e_carl, p_secret2),
     RegisterForm(s_bob, e_bob, p_secret2)}

LoginForm(username, password) == [username |-> username, password |-> password]

AuthLoginForms ==
    {LoginForm(s_Bob, p_secret1), LoginForm(s_Bob, p_secret2), LoginForm(e_carl, p_secret1)}

ProfileForm(username, email) == [username |-> username, email |-> email]

AuthProfileForms == {ProfileForm(s_Bob, e_bob), ProfileForm(s_bob, e_carl)}

InitAuth ==
    /\ db = EmptyDb
    /\ txn = NoTxn
    /\ now = 0
    /\ rng = 0
    /\ session = [c \in Clients |-> NoSession]
    /\ req = [c \in Clients |-> Idle]

NextAuth ==
    \E c \in Clients :
        \/ register_select_username(c, AuthRegisterForms)
        \/ register_select_email(c)
        \/ register_insert(c)
        \/ register_commit(c)
        \/ login_select(c, AuthLoginForms)
        \/ login_update_last_login(c)
        \/ login_commit(c)
        \/ update_profile_select(c, AuthProfileForms)
        \/ update_profile_update(c)
        \/ update_profile_commit(c)
        \/ logout(c)
        \/ Busy(c)
        \/ Abort(c)

SpecAuth == InitAuth /\ [][NextAuth]_vars

\* C3: in every state of the database no two identities share a username
\* and no two identities share an email.
C3_UniqueIdentities ==
    \A u1, u2 \in db.users :
        u1 # u2 => (u1.id # u2.id /\ u1.username # u2.username /\ u1.email # u2.email)

\* two registrations of one username raced: one won, the INSERT of the
\* other hit the UNIQUE constraint
C3_Witness ==
    \E c1, c2 \in Clients :
        /\ req[c1].op = "register" /\ req[c1].pc = "done"
        /\ req[c2].op = "register" /\ req[c2].pc = "done"
        /\ req[c1].resp.flash = MSG_REGISTERED
        /\ req[c2].resp.flash = MSG_REGISTER_FAILED
        /\ Strip(req[c1].args.username) = Strip(req[c2].args.username)
        /\ Cardinality(db.users) = 1

\* C4: a login with the username and the password of a registered
\* identity (the username as register stored it) is accepted as that
\* identity, and with that username and another password it ends with
\* InvalidCredentials.
C4_RoundTrip ==
    [][\A c \in Clients :
          Starts(c, "login") =>
              \A u \in db.users :
                  u.username = Strip(req'[c].args.username) =>
                      IF check_password_hash(u.password_hash, req'[c].args.password)
                      THEN /\ req'[c].pc = "update_last_login"
                           /\ req'[c].loc.user_id = u.id
                      ELSE /\ req'[c].pc = "done"
                           /\ req'[c].resp.flash = MSG_INVALID_CREDENTIALS
      ]_vars

\* C11: a login whose identifier matches no identity and a login whose
\* identifier matches identities none of which verifies the password get
\* the same answer, the login page with the one InvalidCredentials flash,
\* and neither creates a session nor changes stored state.
C11_LoginRejectionUniform ==
    [][\A c \in Clients :
          LET identifier == Lower(Strip(req'[c].args.username))
              password == req'[c].args.password
          IN (/\ Starts(c, "login")
              /\ identifier # <<>>
              /\ password # <<>>
              /\ \A u \in db.users :
                     (u.username = identifier \/ u.email = identifier) =>
                         ~check_password_hash(u.password_hash, password)) =>
                 /\ req'[c].pc = "done"
                 /\ Visible(req'[c].resp) =
                        Page("login.html", "error", MSG_INVALID_CREDENTIALS)
                 /\ db' = db
                 /\ txn' = txn
                 /\ session' = session
      ]_vars

\* one client was rejected for a wrong password on an existing identity,
\* the other for an identifier nobody has; neither holds a session
C11_Witness ==
    \E c1, c2 \in Clients :
        /\ req[c1].op = "login" /\ req[c1].pc = "done"
        /\ req[c2].op = "login" /\ req[c2].pc = "done"
        /\ req[c1].resp.flash = MSG_INVALID_CREDENTIALS
        /\ req[c2].resp.flash = MSG_INVALID_CREDENTIALS
        /\ \E u \in db.users :
               /\ u.email = Lower(Strip(req[c1].args.username))
               /\ ~check_password_hash(u.password_hash, req[c1].args.password)
        /\ \A u \in db.users :
               /\ u.username # Lower(Strip(req[c2].args.username))
               /\ u.email # Lower(Strip(req[c2].args.username))
        /\ ~LoggedIn(c1)
        /\ ~LoggedIn(c2)

\* C12: a register (with a valid form) that begins while an identity has
\* its username ends at once with 'Username already taken', and one that
\* reaches the email check while an identity has its email ends with
\* 'Email already registered'; either way no identity and no session is
\* created.
C12_RegisterConflict ==
    [][\A c \in Clients :
          /\ (/\ Starts(c, "register")
              /\ RegisterErrors(Strip(req'[c].args.username),
                                Lower(Strip(req'[c].args.email)),
                                req'[c].args.password,
                                req'[c].args.confirm_password) = <<>>
              /\ \E u \in db.users : u.username = Strip(req'[c].args.username)) =>
                 /\ req'[c].pc = "done"
                 /\ Visible(req'[c].resp) =
                        Page("register.html", "error", MSG_USERNAME_TAKEN)
                 /\ db' = db
                 /\ txn' = txn
                 /\ session' = session
          /\ (/\ At(c, "register", "select_email")
              /\ req'[c] # req[c]
              /\ \E u \in db.users : u.email = req[c].loc.email) =>
                 /\ req'[c].pc = "done"
                 /\ Visible(req'[c].resp) =
                        Page("register.html", "error", MSG_EMAIL_TAKEN)
                 /\ db' = db
                 /\ txn' = txn
                 /\ session' = session
      ]_vars

\* a second register with the username of an identity and another email
\* was refused, and so was one with a new username and a taken email
C12_Witness ==
    \E c1, c2 \in Clients : \E u \in db.users :
        /\ req[c1].op = "register" /\ req[c1].pc = "done"
        /\ req[c1].resp.flash = MSG_USERNAME_TAKEN
        /\ u.username = Strip(req[c1].args.username)
        /\ u.email # Lower(Strip(req[c1].args.email))
        /\ req[c2].op = "register" /\ req[c2].pc = "done"
        /\ req[c2].resp.flash = MSG_EMAIL_TAKEN
        /\ u.email = Lower(Strip(req[c2].args.email))
        /\ u.username # Strip(req[c2].args.username)
        /\ Cardinality(db.users) = 1

\* C18: an update_profile (logged in, valid form) that begins while another
\* identity has the new username or the new email ends at once with
\* 'Username or email already taken' and changes nothing; one that collides
\* with no other identity, its own row included or not, passes the check,
\* and when it commits its row holds the new username and email.
C18_ProfileConflict ==
    [][\A c \in Clients :
          LET username == Strip(req'[c].args.username)
              email == Lower(Strip(req'[c].args.email))
              valid == /\ LoggedIn(c)
                       /\ Len(username) >= MIN_USERNAME_LEN
                       /\ email # <<>>
                       /\ Contains(email, "@")
              taken == \E u \in db.users :
                          /\ u.id # session[c].user_id
                          /\ (u.username = username \/ u.email = email)
          IN /\ (Starts(c, "update_profile") /\ valid /\ taken) =>
                    /\ req'[c].pc = "done"
                    /\ Visible(req'[c].resp) =
                           Redirect("profile", "error", MSG_PROFILE_TAKEN)
                    /\ db' = db
                    /\ txn' = txn
                    /\ session' = session
             /\ (Starts(c, "update_profile") /\ valid /\ ~taken) =>
                    /\ req'[c].pc = "update"
                    /\ db' = db
             /\ (At(c, "update_profile", "commit") /\ req'[c].pc = "done"
                   /\ req'[c].resp.category = "success") =>
                    /\ Visible(req'[c].resp) =
                           Redirect("profile", "success", MSG_PROFILE_UPDATED)
                    /\ \A u \in db'.users :
                           u.id = req[c].loc.user_id =>
                               /\ u.username = req[c].loc.username
                               /\ u.email = req[c].loc.email
                    /\ \A u \in db.users :
                           u.id # req[c].loc.user_id => u \in db'.users
      ]_vars

\* one client was refused for another identity's username or email, the
\* other passed the check and wrote while its own row already held the very
\* username and email it sent
C18_Witness ==
    \E c1, c2 \in Clients : \E u \in db.users :
        /\ req[c1].op = "update_profile" /\ req[c1].pc = "done"
        /\ req[c1].resp.flash = MSG_PROFILE_TAKEN
        /\ At(c2, "update_profile", "commit")
        /\ u.id = req[c2].loc.user_id
        /\ u.username = req[c2].loc.username
        /\ u.email = req[c2].loc.email
        /\ Cardinality(db.users) = 2

\* C13: a register that passed both existence checks and whose INSERT is
\* refused by a UNIQUE constraint (a concurrent register won) is answered
\* with the uniqueness error, 'Username already taken' or 'Email already
\* registered'.
C13_RaceLoserGetsConflict ==
    [][\A c \in Clients :
          (/\ At(c, "register", "insert")
           /\ CanWrite(c)
           /\ req'[c].pc = "done") =>
              req'[c].resp.flash \in {MSG_USERNAME_TAKEN, MSG_EMAIL_TAKEN}
      ]_vars

(***************************************************************************)
(* Registering with good and bad forms, from an empty users table.         *)
(***************************************************************************)
s_ab == <<"a", "b">>
s_ab_padded == <<" ", "a", "b", " ">>
e_no_at == <<"b", ".", "x">>
e_blank == <<" ">>

RegisterForms ==
    {RegisterForm(s_Bob, e_bob_raw, p_secret1),
     RegisterForm(s_bob, e_carl, p_secret2),
     RegisterForm(s_ab, e_carl, p_secret1),
     RegisterForm(s_ab_padded, e_carl, p_secret1),
     RegisterForm(s_Bob, e_no_at, p_secret1),
     RegisterForm(s_Bob, e_blank, p_secret1),
     RegisterForm(s_Bob, e_bob_raw, p_short),
     RegisterForm(s_ab, e_no_at, p_short)}

NextRegister ==
    \E c \in Clients :
        \/ register_select_username(c, RegisterForms)
        \/ register_select_email(c)
        \/ register_insert(c)
        \/ register_commit(c)
        \/ Busy(c)
        \/ Abort(c)

SpecRegister == InitAuth /\ [][NextRegister]_vars

\* Whether a flashed list of messages has the message.
Flashed(flash, message) == \E i \in 1..Len(flash) : flash[i] = message

\* C23: a register whose username has fewer than 3 characters (as typed, or
\* once stripped), whose email is empty or has no '@', or whose password
\* has fewer than 6 characters ends at once on the register page with the
\* error of every check that failed, and creates no identity and no
\* session, whatever the users table holds.
C23_RegisterRejectsInvalid ==
    [][\A c \in Clients :
          Starts(c, "register") =>
              LET form == req'[c].args
                  short_username == \/ Len(form.username) < 3
                                    \/ Len(Strip(form.username)) < 3
                  bad_email == \/ Strip(form.email) = <<>>
                               \/ ~Contains(form.email, "@")
                  short_password == Len(form.password) < 6
              IN (short_username \/ bad_email \/ short_password) =>
                    /\ req'[c].pc = "done"
                    /\ req'[c].resp.kind = "page"
                    /\ req'[c].resp.to = "register.html"
                    /\ req'[c].resp.category = "error"
                    /\ short_username => Flashed(req'[c].resp.flash, MSG_USERNAME_SHORT)
                    /\ bad_email => Flashed(req'[c].resp.flash, MSG_EMAIL_INVALID)
                    /\ short_password => Flashed(req'[c].resp.flash, MSG_PASSWORD_SHORT)
                    /\ db' = db
                    /\ txn' = txn
                    /\ session' = session
      ]_vars

\* the client that registered the one identity was then refused a form
\* with an email without '@'; the other client was refused a username of
\* two characters between blanks and holds no session
C23_Witness ==
    \E c1, c2 \in Clients :
        /\ Cardinality(db.users) = 1
        /\ req[c1].op = "register" /\ req[c1].pc = "done"
        /\ req[c1].args.email = e_no_at
        /\ req[c1].args.username = s_Bob
        /\ req[c1].resp.flash = <<MSG_EMAIL_INVALID>>
        /\ \E u \in db.users : u.id = session[c1].user_id
        /\ req[c2].op = "register" /\ req[c2].pc = "done"
        /\ req[c2].args.username = s_ab_padded
        /\ req[c2].resp.flash = <<MSG_USERNAME_SHORT>>
        /\ ~LoggedIn(c2)

(***************************************************************************)
(* Logging in: two registered users, anonymous clients that log in with    *)
(* right and wrong credentials while the clock runs.                       *)
(***************************************************************************)
s_zed == <<"z", "e", "d">>

LoginForms ==
    {LoginForm(s_alice, p_secret1), LoginForm(e_bob, p_secret2),
     LoginForm(s_bob, p_secret1), LoginForm(s_zed, p_secret1)}

NextLogin ==
    \/ \E c \in Clients :
         \/ login_select(c, LoginForms)
         \/ login_update_last_login(c)
         \/ login_commit(c)
         \/ Busy(c)
         \/ Abort(c)
    \/ Tick

SpecLogin == InitReset /\ [][NextLogin]_vars

\* The users of d, the row `id` with its last_login set to t.
WithLastLogin(d, id, t) ==
    {IF u.id = id THEN [u EXCEPT !.last_login = t] ELSE u : u \in d.users}

\* C22: the UPDATE of an accepted login writes the current time into the
\* last_login of the identity that was authenticated, and into nothing
\* else; the commit of the login publishes exactly that, so the database
\* differs from the one before only in that one field; a login that ends
\* in an error leaves the database as it was, and no step other than the
\* commit of a login changes any last_login.
C22_LastLoginFrame ==
    [][/\ \A c \in Clients :
            /\ (At(c, "login", "update_last_login") /\ req'[c].pc = "commit") =>
                  /\ txn'.owner = c
                  /\ txn'.db = [db EXCEPT !.users =
                                    WithLastLogin(db, req[c].loc.user_id, now)]
                  /\ db' = db
            /\ (At(c, "login", "commit") /\ req'[c].pc = "done"
                  /\ req'[c].resp.category = "success") =>
                  /\ db' = txn.db
                  /\ session'[c].user_id = req[c].loc.user_id
                  /\ \E u \in db'.users :
                         /\ u.id = req[c].loc.user_id
                         /\ u.last_login \in 0..now
                         /\ db' = [db EXCEPT !.users =
                                     WithLastLogin(db, u.id, u.last_login)]
            /\ (req'[c].op = "login" /\ req'[c] # req[c] /\ req'[c].pc = "done"
                  /\ req'[c].resp.category = "error") =>
                  /\ db' = db
                  /\ session' = session
       /\ \A u \in db.users : \A u2 \in db'.users :
            (u2.id = u.id /\ u2.last_login # u.last_login) =>
                \E c \in Clients :
                    /\ At(c, "login", "commit")
                    /\ req[c].loc.user_id = u.id
                    /\ req'[c].resp.category = "success"
      ]_vars

\* after the clock moved, one client logged in as the first identity,
\* whose last_login is that later time; the other was refused with the
\* second identity's username, whose last_login is still NULL
C22_Witness ==
    \E c1, c2 \in Clients : \E u1, u2 \in db.users :
        /\ req[c1].op = "login" /\ req[c1].pc = "done"
        /\ req[c1].resp.category = "success"
        /\ session[c1].user_id = u1.id
        /\ u1.last_login >= 1
        /\ req[c2].op = "login" /\ req[c2].pc = "done"
        /\ req[c2].resp.flash = MSG_INVALID_CREDENTIALS
        /\ u2.username = Lower(Strip(req[c2].args.username))
        /\ u2.last_login = NULL
        /\ ~LoggedIn(c2)

(***************************************************************************)
(* Changing passwords: two registered users, every client logged in as one *)
(* of them.                                                                *)
(***************************************************************************)
PasswordForm(current_password, new_password, confirm_password) ==
    [current_password |-> current_password, new_password |-> new_password,
     confirm_password |-> confirm_password]

PasswordForms ==
    {PasswordForm(p_secret1, p_new1, p_new1),
     PasswordForm(p_new1, p_secret1, p_secret1),
     PasswordForm(p_secret2, p_new1, p_new1),
     PasswordForm(p_secret1, p_short, p_short),
     PasswordForm(p_secret2, p_short, p_short),
     PasswordForm(p_secret1, p_new1, p_new2),
     PasswordForm(<<>>, p_new1, p_new1)}

InitPassword ==
    /\ db = TwoUsers
    /\ txn = NoTxn
    /\ now = 0
    /\ rng = 0
    /\ session \in [Clients -> {SessionOf(TwoUsers, 1), SessionOf(TwoUsers, 2)}]
    /\ req = [c \in Clients |-> Idle]

NextPassword ==
    \E c \in Clients :
        \/ change_password_select(c, PasswordForms)
        \/ change_password_update(c)
        \/ change_password_commit(c)
        \/ Busy(c)
        \/ Abort(c)

SpecPassword == InitPassword /\ [][NextPassword]_vars

\* The stored hash of the identity a client is logged in as.
StoredHash(d, c) == {u.password_hash : u \in UsersById(d, session[c].user_id)}

\* C19 as claimed: a change_password whose current password does not
\* verify ends with 'Current password is incorrect', and one whose new
\* password is shorter than 6 characters ends with 'New password must be at
\* least 6 characters'; both leave the stored hash unchanged.
C19_AsClaimed ==
    [][\A c \in Clients :
          Starts(c, "change_password") =>
              /\ (\E h \in StoredHash(db, c) :
                      ~check_password_hash(h, req'[c].args.current_password)) =>
                     /\ req'[c].pc = "done"
                     /\ req'[c].resp.flash = MSG_CURRENT_INCORRECT
                     /\ db' = db /\ txn' = txn
              /\ Len(req'[c].args.new_password) < MIN_PASSWORD_LEN =>
                     /\ req'[c].pc = "done"
                     /\ req'[c].resp.flash = MSG_NEW_PASSWORD_SHORT
                     /\ db' = db /\ txn' = txn
      ]_vars

\* C19 as amended: the form is checked before the credentials. An empty
\* current password, a new password shorter than 6 characters or one that
\* differs from its confirmation ends with the message of that check,
\* whether or not the current password verifies; a form that passes and
\* whose current password does not verify ends with 'Current password is
\* incorrect'. All of these leave the database unchanged. When a
\* change_password commits, the stored hash verifies the new password and
\* no longer the one that was sent as current (unless they are equal).
C19_FormBeforeCredentials ==
    [][\A c \in Clients :
          /\ Starts(c, "change_password") =>
                LET form == req'[c].args
                    error == IF form.current_password = <<>> THEN MSG_CURRENT_REQUIRED
                             ELSE IF Len(form.new_password) < MIN_PASSWORD_LEN
                             THEN MSG_NEW_PASSWORD_SHORT
                             ELSE IF form.new_password # form.confirm_password
                             THEN MSG_PASSWORD_MISMATCH
                             ELSE ""
                IN /\ error # "" =>
                        /\ req'[c].pc = "done"
                        /\ Visible(req'[c].resp) = Redirect("settings", "error", error)
                        /\ db' = db /\ txn' = txn
                   /\ (/\ error = ""
                       /\ \E h \in StoredHash(db, c) :
                              ~check_password_hash(h, form.current_password)) =>
                        /\ req'[c].pc = "done"
                        /\ Visible(req'[c].resp) =
                               Redirect("settings", "error", MSG_CURRENT_INCORRECT)
                        /\ db' = db /\ txn' = txn
          /\ (At(c, "change_password", "commit") /\ req'[c].pc = "done"
                /\ req'[c].resp.category = "success") =>
                /\ Visible(req'[c].resp) =
                       Redirect("settings", "success", MSG_PASSWORD_CHANGED)
                /\ \A h \in StoredHash(db', c) :
                       /\ check_password_hash(h, req[c].args.new_password)
                       /\ req[c].args.current_password # req[c].args.new_password =>
                              ~check_password_hash(h, req[c].args.current_password)
                /\ StoredHash(db', c) # {}
      ]_vars

\* one client changed its password, the other, logged in as the same
\* identity, was then refused for sending the old one as current
C19_Witness ==
    \E c1, c2 \in Clients :
        /\ req[c1].op = "change_password" /\ req[c1].pc = "done"
        /\ req[c1].resp.flash = MSG_PASSWORD_CHANGED
        /\ req[c2].op = "change_password" /\ req[c2].pc = "done"
        /\ req[c2].resp.flash = MSG_CURRENT_INCORRECT
        /\ session[c1].user_id = session[c2].user_id
        /\ req[c2].args.current_password = req[c1].args.current_password
        /\ \A h \in StoredHash(db, c1) :
               check_password_hash(h, req[c1].args.new_password)

(***************************************************************************)
(* Deleting accounts: two registered users, a reset link issued for the    *)
(* first; every client is logged in as one of them, appends events and     *)
(* may delete its account.                                                 *)
(***************************************************************************)
TwoUsersOneToken ==
    [TwoUsers EXCEPT !.tokens = {[id |-> 1, email |-> e_alice, token |-> 1,
                                  created_at |-> 0,
                                  expires_at |-> RESET_TOKEN_EXPIRY_HOURS,
                                  used |-> FALSE]},
                     !.seq.tokens = 1]

InitDelete ==
    /\ db = TwoUsersOneToken
    /\ txn = NoTxn
    /\ now = 0
    /\ rng = 1
    /\ session \in [Clients -> {SessionOf(TwoUsers, 1), SessionOf(TwoUsers, 2)}]
    /\ req = [c \in Clients |-> Idle]

DeletePasswords == {p_secret1, p_secret2, <<>>}

NextDelete ==
    \E c \in Clients :
        \/ simulate_step_select(c, Samples)
        \/ simulate_step_insert(c)
        \/ simulate_step_commit(c)
        \/ simulate_step_stats(c)
        \/ delete_account_select(c, DeletePasswords)
        \/ delete_account_delete_tokens(c)
        \/ delete_account_delete_user(c)
        \/ delete_account_commit(c)
        \/ Busy(c)
        \/ Abort(c)

SpecDelete == InitDelete /\ [][NextDelete]_vars

\* C5: when delete_account commits, no reset token of the deleted
\* identity's email and no energy event of its id is left in the database.
C5_CascadeDelete ==
    [][\A c \in Clients :
          (/\ At(c, "delete_account", "commit")
           /\ req'[c].pc = "done"
           /\ req'[c].resp.flash = MSG_ACCOUNT_DELETED) =>
              /\ UsersById(db', req[c].loc.user_id) = {}
              /\ \A t \in db'.tokens : t.email # req[c].loc.email
              /\ \A e \in db'.energy : e.user_id # req[c].loc.user_id
      ]_vars

\* C34: every stored event belongs to a stored identity, and an append
\* sent with a session whose identity has been deleted is refused at once
\* and writes nothing.
C34_NoOrphanEvents ==
    /\ [](\A e \in db.energy : \E u \in db.users : u.id = e.user_id)
    /\ [][\A c \in Clients :
            (/\ Starts(c, "simulate_step")
             /\ LoggedIn(c)
             /\ UsersById(db, session[c].user_id) = {}) =>
                /\ req'[c].pc = "done"
                /\ req'[c].resp.category = "error"
                /\ db' = db
                /\ txn' = txn]_vars

\* C24: a delete_account of a logged-in identity with a password that is
\* not the identity's ends at once with an error on the settings page,
\* 'Incorrect password' (when no password was sent at all, 'Password is
\* required to delete account'), and leaves the users, the reset tokens,
\* the energy events and the session as they were.
C24_DeleteRefusedChangesNothing ==
    [][\A c \in Clients :
          (/\ Starts(c, "delete_account")
           /\ \E u \in db.users :
                  /\ u.id = session[c].user_id
                  /\ u.password_hash # generate_password_hash(req'[c].args.password)) =>
              /\ req'[c].pc = "done"
              /\ Visible(req'[c].resp) =
                     Redirect("settings", "error",
                              IF req'[c].args.password = <<>>
                              THEN MSG_DELETE_PASSWORD_REQUIRED
                              ELSE MSG_INCORRECT_PASSWORD)
              /\ db' = db
              /\ txn' = txn
              /\ session' = session
      ]_vars

\* an identity with a reset token and an event was refused the deletion
\* for a wrong password: it, its token, its event and its session are there
C24_Witness ==
    \E c \in Clients : \E u \in db.users :
        /\ req[c].op = "delete_account" /\ req[c].pc = "done"
        /\ req[c].resp.flash = MSG_INCORRECT_PASSWORD
        /\ req[c].args.password # <<>>
        /\ session[c].user_id = u.id
        /\ ~check_password_hash(u.password_hash, req[c].args.password)
        /\ \E t \in db.tokens : t.email = u.email
        /\ \E e \in db.energy : e.user_id = u.id

(***************************************************************************)
(* Sessions: one client is logged in, uses every operation, logs out and  *)
(* goes on sending requests; the other never logged in.  With one session *)
(* there is one writer at a time, so no request waits for the write lock.  *)
(***************************************************************************)
InitGuard ==
    /\ db = TwoUsers
    /\ txn = NoTxn
    /\ now = 0
    /\ rng = 0
    /\ session = [c \in Clients |-> IF c = "c1" THEN SessionOf(TwoUsers, 1)
                                     ELSE NoSession]
    /\ req = [c \in Clients |-> Idle]

GuardProfileForms == {ProfileForm(s_alice, e_alice)}

GuardPasswordForms == {PasswordForm(p_secret1, p_new1, p_new1)}

GuardDeletePasswords == {p_secret1}

NextGuard ==
    \E c \in Clients :
        \/ simulate_step_select(c, OneDraw)
        \/ simulate_step_insert(c)
        \/ simulate_step_commit(c)
        \/ simulate_step_stats(c)
        \/ get_energy_data_select_records(c, Limits)
        \/ get_energy_data_select_stats(c)
        \/ get_dashboard_stats_select(c)
        \/ get_dashboard_stats_select_today(c)
        \/ clear_data_select(c)
        \/ clear_data_delete(c)
        \/ clear_data_commit(c)
        \/ update_profile_select(c, GuardProfileForms)
        \/ update_profile_update(c)
        \/ update_profile_commit(c)
        \/ change_password_select(c, GuardPasswordForms)
        \/ change_password_update(c)
        \/ change_password_commit(c)
        \/ delete_account_select(c, GuardDeletePasswords)
        \/ delete_account_delete_tokens(c)
        \/ delete_account_delete_user(c)
        \/ delete_account_commit(c)
        \/ logout(c)
        \/ Abort(c)

SpecGuard == InitGuard /\ [][NextGuard]_vars

\* C27: a request for an operation that needs an identity, sent by a
\* client whose session holds no user_id, ends at once with Unauthenticated
\* (401 'Not authenticated' from the JSON endpoints, the redirect to the
\* login page with 'Please log in' from the form endpoints) and changes
\* neither the database nor the session; logout leaves the session without
\* a user_id.
C27_Unauthenticated ==
    [][\A c \in Clients :
          /\ (/\ session[c].user_id = 0
              /\ \E op \in {"simulate_step", "get_energy_data", "get_dashboard_stats",
                              "clear_data"} : Starts(c, op)) =>
                 /\ req'[c].pc = "done"
                 /\ Visible(req'[c].resp) = JsonError(401, "Not authenticated")
                 /\ db' = db
                 /\ txn' = txn
                 /\ session' = session
          /\ (/\ session[c].user_id = 0
              /\ \E op \in {"update_profile", "change_password", "delete_account"} :
                     Starts(c, op)) =>
                 /\ req'[c].pc = "done"
                 /\ Visible(req'[c].resp) = Redirect("login", "error", MSG_PLEASE_LOG_IN)
                 /\ db' = db
                 /\ txn' = txn
                 /\ session' = session
          /\ Starts(c, "logout") =>
                 /\ session'[c] = NoSession
                 /\ db' = db
                 /\ txn' = txn
      ]_vars

\* the client that was logged in appended an event and logged out (its
\* identity and the event are still stored) and was then refused an append;
\* the client that never logged in was refused a change of password
C27_Witness ==
    \E c1, c2 \in Clients :
        /\ Cardinality(db.users) = 2
        /\ db.energy # {}
        /\ session[c1].user_id = 0
        /\ session[c2].user_id = 0
        /\ req[c1].op = "simulate_step" /\ req[c1].pc = "done"
        /\ req[c1].resp.to = 401
        /\ req[c2].op = "change_password" /\ req[c2].pc = "done"
        /\ req[c2].resp.flash = MSG_PLEASE_LOG_IN

(***************************************************************************)
(* A reset link and a changed email: one registered user, logged in on one *)
(* client; links are requested for the user's first email and consumed     *)
(* while the user changes email and somebody registers with the old one.   *)
(***************************************************************************)
OneUser ==
    [EmptyDb EXCEPT !.users = {UserRow(1, s_alice, e_alice, p_secret1)},
                    !.seq.users = 1]

InitOwner ==
    /\ db = OneUser
    /\ txn = NoTxn
    /\ now = 0
    /\ rng = 0
    /\ session = [c \in Clients |-> IF c = "c2" THEN SessionOf(OneUser, 1)
                                     ELSE NoSession]
    /\ req = [c \in Clients |-> Idle]

OwnerProfileForms == {ProfileForm(s_alice, e_carl)}

OwnerRegisterForms == {RegisterForm(s_zed, e_alice, p_secret2)}

NextOwner ==
    \E c \in Clients :
        \/ forgot_password_select(c, ConsumeEmails, MaxTokens)
        \/ forgot_password_insert(c)
        \/ forgot_password_commit(c)
        \/ forgot_password_send(c, {"sent"})
        \/ reset_password_select(c, LinkForms)
        \/ reset_password_update_password(c)
        \/ reset_password_mark_used(c)
        \/ reset_password_commit(c)
        \/ update_profile_select(c, OwnerProfileForms)
        \/ update_profile_update(c)
        \/ update_profile_commit(c)
        \/ register_select_username(c, OwnerRegisterForms)
        \/ register_select_email(c)
        \/ register_insert(c)
        \/ register_commit(c)
        \/ Busy(c)
        \/ Abort(c)

SpecOwner == InitOwner /\ [][NextOwner]_vars

\* C33: when a reset_password commits, the identity for which the link was
\* issued (the one forgot_password found under the email) has the new
\* password, and the row of every other identity is as it was, whatever
\* update_profile and register did between the issue and the consume.
C33_ConsumeChangesTheOwner ==
    [][\A c, issuer \in Clients :
          (/\ At(c, "reset_password", "commit")
           /\ req'[c].pc = "done"
           /\ req'[c].resp.category = "success"
           /\ req[issuer].op = "forgot_password"
           /\ req[issuer].pc = "done"
           /\ req[issuer].resp.flash = MSG_LINK_GENERATED
           /\ req[issuer].resp.token = req[c].args.token) =>
              /\ \E u \in db'.users :
                     /\ u.id = req[issuer].resp.user_id
                     /\ u.password_hash = req[c].loc.password_hash
              /\ \A u \in db.users :
                     u.id # req[issuer].resp.user_id => u \in db'.users
      ]_vars

(***************************************************************************)
(* Ids of identities: clients register, append events and delete their     *)
(* accounts, starting from an empty users table.                           *)
(***************************************************************************)
IdsRegisterForms ==
    {RegisterForm(s_Bob, e_bob_raw, p_secret1), RegisterForm(s_bob, e_carl, p_secret2)}

NextIds ==
    \E c \in Clients :
        \/ register_select_username(c, IdsRegisterForms)
        \/ register_select_email(c)
        \/ register_insert(c)
        \/ register_commit(c)
        \/ simulate_step_select(c, OneDraw)
        \/ simulate_step_insert(c)
        \/ simulate_step_commit(c)
        \/ simulate_step_stats(c)
        \/ delete_account_select(c, {p_secret1, p_secret2})
        \/ delete_account_delete_tokens(c)
        \/ delete_account_delete_user(c)
        \/ delete_account_commit(c)
        \/ Busy(c)
        \/ Abort(c)

SpecIds == InitAuth /\ [][NextIds]_vars

\* C35: the AUTOINCREMENT counter of users never goes down and no
\* identity, event or session carries an id above it; the id a register
\* commits is one above the counter, so it is the id of no identity stored
\* or deleted before, no stored event has it and no other session holds it.
C35_IdsNeverReused ==
    [][/\ db'.seq.users >= db.seq.users
       /\ \A u \in db.users : u.id <= db.seq.users
       /\ \A e \in db.energy : e.user_id <= db.seq.users
       /\ \A c \in Clients : session[c].user_id <= db.seq.users
       /\ \A c \in Clients :
            (At(c, "register", "commit") /\ req'[c].pc = "done"
               /\ req'[c].resp.category = "success") =>
                \E u \in db'.users :
                    /\ db'.users = db.users \cup {u}
                    /\ u.id = db.seq.users + 1
                    /\ u.id = db'.seq.users
                    /\ session'[c].user_id = u.id
                    /\ EventsOf(db', u.id) = {}
                    /\ \A c2 \in Clients \ {c} : session'[c2].user_id # u.id
      ]_vars

\* the first identity appended an event and deleted its account, leaving
\* the event behind; the identity registered afterwards has id 2 and no
\* events
C35_Witness ==
    \E c \in Clients : \E u \in db.users : \E e \in db.energy :
        /\ db.users = {u}
        /\ u.id = 2
        /\ session[c].user_id = 2
        /\ req[c].op = "register" /\ req[c].pc = "done"
        /\ e.user_id = 1
        /\ EventsOf(db, 2) = {}

(***************************************************************************)
(* A username that is another identity's email: alice is registered with   *)
(* email a@x; clients register the username "a@x" and log in with a@x.      *)
(***************************************************************************)
ShadowRegisterForms == {RegisterForm(e_alice, e_carl, p_secret2)}

ShadowLoginForms ==
    {LoginForm(e_alice, p_secret1), LoginForm(e_alice, p_secret2),
     LoginForm(e_carl, p_secret2)}

NextShadow ==
    \/ \E c \in Clients :
         \/ register_select_username(c, ShadowRegisterForms)
         \/ register_select_email(c)
         \/ register_insert(c)
         \/ register_commit(c)
         \/ login_select(c, ShadowLoginForms)
         \/ login_update_last_login(c)
         \/ login_commit(c)
         \/ logout(c)
         \/ Busy(c)
         \/ Abort(c)
    \/ Tick

SpecShadow == InitOwner /\ [][NextShadow]_vars

\* C36: a login whose identifier is the email of a stored identity and
\* whose password is that identity's is accepted as that identity: the
\* request goes on to the UPDATE of last_login with that identity's id,
\* username and email, whatever other identities are stored.
C36_OwnEmailLogsIn ==
    [][\A c \in Clients : \A u \in db.users :
          (/\ Starts(c, "login")
           /\ Lower(Strip(req'[c].args.username)) = u.email
           /\ u.password_hash = generate_password_hash(req'[c].args.password)) =>
              /\ req'[c].pc = "update_last_login"
              /\ req'[c].loc = [user_id |-> u.id, username |-> u.username,
                                email |-> u.email]
      ]_vars

====
